---- MODULE Spec2Model ----
(***************************************************************************)
(* Bass tournament bot (src/index.js): the relational tables, the          *)
(* interaction handlers of the two deployments held in the file (the       *)
(* moderated slash-command bot, lines 1-772, and the panel bot with photo  *)
(* uploads, lines 776-1834) and the leaderboard queries.                   *)
(*                                                                         *)
(* Every sqlite statement is one atomic step; a handler is a sequence of   *)
(* steps, one per awaited statement, so handlers interleave at each await. *)
(* Statements issued inside one db.serialize block in one tick run         *)
(* back to back and form one step.  The calls a handler makes to the chat  *)
(* surface between two statements form one step with the statement that    *)
(* follows them; during such a step the surface is up (every call          *)
(* succeeds) or down (every call fails).  Of the messages the bot sends    *)
(* the model keeps those it reads back: the review posts with their        *)
(* buttons and the four auto-updating embeds.                              *)
(***************************************************************************)
EXTENDS Integers, Sequences, FiniteSets, TLC

\* ---------------------------------------------------------------- bounds
\* handlers in flight at once
NumSlots == 2
\* specification Spec: clock advances, tournaments, uploads and weigh-ins
LifeTicks == 1
LifeTournaments == 2
LifeUploads == 1
LifeWeighins == 1
\* specification SpecSubmit
SubmitTicks == 1
SubmitUploads == 2
SubmitWeighins == 1
\* specification SpecRank
RankTournaments == 2
RankWeighins == 3
\* specification SpecBag: weigh-ins in the ledger
BagWeighins == 6
\* specification SpecFrame
FrameTournaments == 2
FrameWeighins == 2
\* specification SpecSnap: clock advances and weigh-ins in the ledger
SnapTicks == 1
SnapWeighins == 2
\* specification SpecPeriod: ended tournaments on record
PeriodTournaments == 2
\* specification SpecWinners: weigh-ins submitted over the ledger
WinnersWeighins == 1
\* specification SpecEmbeds: tournaments, weigh-ins, messages deleted by a
\* member and messages sent
EmbedsTournaments == 2
EmbedsWeighins == 1
EmbedsDeletes == 1
EmbedsMessages == 9
\* specification SpecIso: tournaments, uploads and weigh-ins of guild g1
IsoTournaments == 2
IsoUploads == 1
IsoWeighins == 1
\* specification SpecFail: tournaments started, weigh-ins submitted
FailTournaments == 2
FailWeighins == 1

\* specification SpecTwice: clock advances, uploads and weigh-ins
TwiceTicks == 2
TwiceUploads == 2
TwiceWeighins == 2

\* specification SpecRace: tournaments started and messages deleted by a
\* member
RaceTournaments == 1
RaceDeletes == 1

\* specification SpecCap: anglers with an approved weigh-in, one more than
\* the leaderboards return
CapAnglers == 26

\* ---------------------------------------------------------------- domains
Guilds == {"g1", "g2"}
Users == {"u1", "u2"}
Channels == {"c1", "c2"}
\* the orders a build may give to rows of equal sort key
TieOrders ==
    {s \in [1..Cardinality(Users) -> Users] :
        \A i, j \in 1..Cardinality(Users) : i # j => s[i] # s[j]}
Slots == 1..NumSlots

\* SQL NULL of a numeric or timestamp column; ids and timestamps start at 1
NULL == 0
\* SQL NULL of a channel id column
NoChannel == "null"

\* recency window of getLatestUpload, in minutes
maxMinutes == 180
\* LIMIT of both leaderboard queries
Limit == 25
\* rn <= 5 of the total bag query
TopN == 5

\* clock advances between two statements, in minutes: up to the recency
\* window and just past it
Deltas == {maxMinutes, maxMinutes + 1}

\* text typed into the weight field of the weigh-in modal
RawWeights == {"abc", "Infinity", "-1", "0", "1"}
\* pounds option of /weighin: a number, at least the minimum the option sets
Pounds == {1, 2}
\* content type of the attachment of /weighin
ContentTypes == {"image", "text"}
\* the pounds of the weigh-ins of a tournament, in the order they were
\* submitted: six distinct weights, and every run of up to BagWeighins
\* weigh-ins of the two smallest weights
BagLedgers ==
    {<<5, 6, 3, 1, 2, 4>>} \cup UNION {[1..n -> Pounds] : n \in 0..BagWeighins}

\* the calendar of strftime over the clock in minutes: months of 30 days,
\* years of 12 months, numbered from 1
MinutesPerMonth == 43200
MonthsPerYear == 12
\* the month option of /month_leaderboard: absent (NULL), a text that is not
\* YYYY-MM, or a month
Malformed == -1
MonthInputs == {NULL, Malformed, 1, 2, MonthsPerYear + 1}
\* times at which the tournaments on record were ended: in the first month,
\* in the second, and in the first month of the next year
EndTimes == {1, MinutesPerMonth + 1, MonthsPerYear * MinutesPerMonth + 1}
\* the pounds of the approved weigh-ins of one angler in one tournament
PeriodBags == {<<>>, <<1>>, <<1, 1>>, <<2, 1>>}
\* the same for the ledgers of specification SpecWinners
WinnersBags == {<<>>, <<1, 1>>, <<2, 1>>}

VARIABLES
    variant,            \* which of the two bots is deployed
    tieOrder,           \* the order in which the build returns rows of equal sort key
    now,                \* datetime('now'), minutes
    ticks,              \* number of clock advances so far
    config,             \* table config, one row per guild
    tournaments,        \* table tournaments
    nextTournamentId,   \* AUTOINCREMENT counter of tournaments
    uploads,            \* table uploads
    weighins,           \* table weighins
    nextWeighinId,      \* AUTOINCREMENT counter of weighins
    tournament_results, \* table tournament_results
    messages,           \* the chat surface: messages the bot sent, by message id
    handlers,           \* the interaction handlers in flight
    reply               \* the last reply a handler sent

vars == <<variant, tieOrder, now, ticks, config, tournaments, nextTournamentId, uploads,
          weighins, nextWeighinId, tournament_results, messages, handlers, reply>>

tables == <<config, tournaments, nextTournamentId, uploads, weighins,
            nextWeighinId, tournament_results>>

\* ---------------------------------------------------------------- helpers
Max(S) == CHOOSE x \in S : \A y \in S : y <= x

Min(a, b) == IF a <= b THEN a ELSE b

\* the sign dropped
NumberAbs(raw) ==
    CASE raw = "abc" -> [finite |-> FALSE, value |-> 0]
      [] raw = "Infinity" -> [finite |-> FALSE, value |-> 0]
      [] raw = "-1" -> [finite |-> TRUE, value |-> 1]
      [] raw = "0" -> [finite |-> TRUE, value |-> 0]
      [] raw = "1" -> [finite |-> TRUE, value |-> 1]

\* Number(text) followed by Number.isFinite
Number(raw) ==
    CASE raw = "abc" -> [finite |-> FALSE, value |-> 0]
      [] raw = "Infinity" -> [finite |-> FALSE, value |-> 0]
      [] raw = "-1" -> [finite |-> TRUE, value |-> -1]
      [] raw = "0" -> [finite |-> TRUE, value |-> 0]
      [] raw = "1" -> [finite |-> TRUE, value |-> 1]

\* a config row as getConfig returns it; a missing row reads as all NULL
NoConfig ==
    [panel_channel_id |-> NoChannel, review_channel_id |-> NoChannel,
     results_channel_id |-> NoChannel, bigbass_channel_id |-> NoChannel,
     top5_channel_id |-> NoChannel, cur_bigbass_msg_id |-> NULL,
     cur_top5_msg_id |-> NULL, monthly_winners_msg_id |-> NULL,
     yearly_winners_msg_id |-> NULL]

getConfig(guildId) == config[guildId]

\* a handler slot that runs nothing
Idle ==
    [kind |-> "none", pc |-> "done", guild_id |-> "none", channel_id |-> NoChannel,
     user_id |-> "none", panel |-> NoChannel, active |-> NULL, raw |-> "none",
     content_type |-> "none", weight |-> 0, photo |-> NULL, big |-> <<>>,
     bag |-> <<>>, written |-> NULL, cfg |-> NoConfig, cur |-> NULL,
     yyyyMm |-> NULL, yyyy |-> NULL, monthW |-> <<>>, yearW |-> <<>>,
     ensured |-> NoConfig]

Free(h) == handlers[h].pc = "done"

\* a new interaction takes the lowest free slot
CanBegin(h) == Free(h) /\ \A k \in Slots : k < h => ~Free(k)

\* fewer than n weigh-ins are written or about to be written
WeighinsBelow(n) ==
    nextWeighinId - 1
        + Cardinality({h \in Slots : /\ handlers[h].kind = "weighin"
                                     /\ handlers[h].written = NULL}) < n

NoReply ==
    [kind |-> "none", guild_id |-> "none", channel_id |-> NoChannel,
     user_id |-> "none", ret |-> "none", id |-> NULL, at |-> NULL, rows |-> <<>>]

\* the handler goes on to its next statement
Continue(h, rec) ==
    /\ handlers' = [handlers EXCEPT ![h] = rec]
    /\ UNCHANGED reply

\* the handler replies and returns
Finish(h, rec, ret, id) ==
    /\ handlers' = [handlers EXCEPT ![h] = Idle]
    /\ reply' = [kind |-> rec.kind, guild_id |-> rec.guild_id,
                 channel_id |-> rec.channel_id, user_id |-> rec.user_id,
                 ret |-> ret, id |-> id, at |-> now, rows |-> <<>>]

\* the handler replies with the rows of a leaderboard and returns
FinishRows(h, rec, id, rows) ==
    /\ handlers' = [handlers EXCEPT ![h] = Idle]
    /\ reply' = [kind |-> rec.kind, guild_id |-> rec.guild_id,
                 channel_id |-> rec.channel_id, user_id |-> rec.user_id,
                 ret |-> "ok", id |-> id, at |-> now, rows |-> rows]

\* ---------------------------------------------------------------- tournaments
ActiveRows(guildId) ==
    {t \in tournaments : t.guild_id = guildId /\ t.is_active}

\* the guild filter dropped
getActiveTournamentAnyGuild(guildId) ==
    IF {t \in tournaments : t.is_active} = {} THEN NULL
    ELSE Max({t.id : t \in {x \in tournaments : x.is_active}})

\* SELECT ... WHERE guild_id = ? AND is_active = 1 ORDER BY id DESC LIMIT 1
getActiveTournament(guildId) ==
    IF ActiveRows(guildId) = {} THEN NULL
    ELSE Max({t.id : t \in ActiveRows(guildId)})

\* the INSERT alone, the active tournament left open
startTournamentNoClose(guildId) ==
    tournaments \cup
        {[id |-> nextTournamentId, guild_id |-> guildId, is_active |-> TRUE,
          ended_at |-> NULL]}

\* the guild condition of the UPDATE dropped
startTournamentAllGuilds(guildId) ==
    {IF t.is_active
        THEN [t EXCEPT !.is_active = FALSE,
                       !.ended_at = IF t.ended_at = NULL THEN now ELSE t.ended_at]
        ELSE t : t \in tournaments}
    \cup {[id |-> nextTournamentId, guild_id |-> guildId, is_active |-> TRUE,
           ended_at |-> NULL]}

\* UPDATE ... SET is_active = 0, ended_at = COALESCE(ended_at, now) WHERE active;
\* INSERT a new active row
startTournament(guildId) ==
    {IF t.guild_id = guildId /\ t.is_active
        THEN [t EXCEPT !.is_active = FALSE,
                       !.ended_at = IF t.ended_at = NULL THEN now ELSE t.ended_at]
        ELSE t : t \in tournaments}
    \cup {[id |-> nextTournamentId, guild_id |-> guildId, is_active |-> TRUE,
           ended_at |-> NULL]}

\* the flag flipped instead of cleared
endTournamentToggle(guildId, tournamentId) ==
    {IF t.guild_id = guildId /\ t.id = tournamentId
        THEN [t EXCEPT !.is_active = ~t.is_active, !.ended_at = now]
        ELSE t : t \in tournaments}

\* UPDATE ... SET is_active = 0, ended_at = now WHERE guild_id = ? AND id = ?
endTournament(guildId, tournamentId) ==
    {IF t.guild_id = guildId /\ t.id = tournamentId
        THEN [t EXCEPT !.is_active = FALSE, !.ended_at = now]
        ELSE t : t \in tournaments}

\* ---------------------------------------------------------------- uploads
\* INSERT INTO uploads; the image url is the one of the posted message
insertUpload(guildId, channelId, userId) ==
    uploads \cup
        {[id |-> Cardinality(uploads) + 1, guild_id |-> guildId,
          channel_id |-> channelId, user_id |-> userId,
          image_url |-> Cardinality(uploads) + 1, created_at |-> now]}

\* the recency condition dropped
RecentUploadsAnyAge(guildId, channelId, userId) ==
    {u \in uploads : /\ u.guild_id = guildId
                     /\ u.channel_id = channelId
                     /\ u.user_id = userId}

\* rows passing the WHERE clause of getLatestUpload
RecentUploads(guildId, channelId, userId) ==
    {u \in uploads : /\ u.guild_id = guildId
                     /\ u.channel_id = channelId
                     /\ u.user_id = userId
                     /\ u.created_at >= now - maxMinutes}

\* ORDER BY datetime(created_at) DESC LIMIT 1: any row with the latest
\* created_at may be the one returned; NULL stands for no row
getLatestUpload(guildId, channelId, userId) ==
    LET R == RecentUploads(guildId, channelId, userId)
    IN  IF R = {} THEN {NULL}
        ELSE {u.id : u \in {v \in R : \A x \in R : x.created_at <= v.created_at}}

UploadRow(id) == CHOOSE u \in uploads : u.id = id

\* ---------------------------------------------------------------- weighins
insertWeighIn(guildId, channelId, tournamentId, userId, weightLbs, photoUrl, status) ==
    weighins \cup
        {[id |-> nextWeighinId, guild_id |-> guildId, channel_id |-> channelId,
          tournament_id |-> tournamentId, user_id |-> userId,
          weight_lbs |-> weightLbs, photo_url |-> photoUrl, status |-> status]}

\* a rejected weigh-in deleted instead of marked
setWeighInStatusDropRejected(W, id, status) ==
    IF status = "rejected" THEN {w \in W : w.id # id}
    ELSE {IF w.id = id THEN [w EXCEPT !.status = status] ELSE w : w \in W}

\* the WHERE clause dropped
setWeighInStatusEveryRow(W, id, status) ==
    {[w EXCEPT !.status = status] : w \in W}

\* UPDATE weighins SET status = ? WHERE id = ? on the table W
setWeighInStatus(W, id, status) ==
    {IF w.id = id THEN [w EXCEPT !.status = status] ELSE w : w \in W}

\* ---------------------------------------------------------------- leaderboards
\* the tournament condition dropped
ApprovedRowsAnyTournament(W, guildId, tournamentId) ==
    {w \in W : /\ w.guild_id = guildId
               /\ w.status = "approved"}

\* the status condition dropped
ApprovedRowsAnyStatus(W, guildId, tournamentId) ==
    {w \in W : /\ w.guild_id = guildId
               /\ w.tournament_id = tournamentId}

\* WHERE guild_id = ? AND tournament_id = ? AND status = 'approved'
ApprovedRows(W, guildId, tournamentId) ==
    {w \in W : /\ w.guild_id = guildId
               /\ w.tournament_id = tournamentId
               /\ w.status = "approved"}

RECURSIVE SumWeights(_)
SumWeights(S) ==
    IF S = {} THEN 0
    ELSE LET x == CHOOSE y \in S : TRUE IN x.weight_lbs + SumWeights(S \ {x})

\* the cap on the row number dropped
RankedNoCap(S, n) == S

\* rows with ROW_NUMBER() OVER (ORDER BY weight_lbs DESC) <= n
RECURSIVE Ranked(_, _)
Ranked(S, n) ==
    IF S = {} \/ n = 0 THEN {}
    ELSE LET x == CHOOSE y \in S : \A z \in S : z.weight_lbs <= y.weight_lbs
         IN  {x} \cup Ranked(S \ {x}, n - 1)

\* the place of an angler in the order the build gives to rows of equal key
TiePlace(userId) == CHOOSE i \in 1..Len(tieOrder) : tieOrder[i] = userId

\* rows with one row per user_id in descending order of key, rows of equal
\* key in the order of the build
RECURSIVE OrderedBy(_, _)
OrderedBy(rows, key) ==
    IF rows = {} THEN <<>>
    ELSE LET first == CHOOSE x \in rows :
                        \A y \in rows \ {x} :
                            \/ x[key] > y[key]
                            \/ /\ x[key] = y[key]
                               /\ TiePlace(x.user_id) < TiePlace(y.user_id)
         IN  <<first>> \o OrderedBy(rows \ {first}, key)

\* ORDER BY key DESC of rows grouped by user_id: the statement names no
\* further key, so rows of equal key come in the order of the build, the
\* same at every execution
Orderings(rows, key) == {OrderedBy(rows, key)}

Take(s, n) == SubSeq(s, 1, Min(n, Len(s)))

\* SELECT user_id, MAX(weight_lbs) AS big_bass ... GROUP BY user_id
BigBassGroups(W, guildId, tournamentId) ==
    LET A == ApprovedRows(W, guildId, tournamentId)
    IN  {[user_id |-> u,
          big_bass |-> Max({w.weight_lbs : w \in {x \in A : x.user_id = u}})] :
            u \in {w.user_id : w \in A}}

\* the results getBigBassLeaderboard may return
getBigBassLeaderboard(W, guildId, tournamentId) ==
    {Take(s, Limit) : s \in Orderings(BigBassGroups(W, guildId, tournamentId), "big_bass")}

\* SELECT user_id, SUM(weight_lbs), COUNT(*) FROM ranked WHERE rn <= 5 GROUP BY user_id
TotalBagGroups(W, guildId, tournamentId) ==
    LET A == ApprovedRows(W, guildId, tournamentId)
    IN  {[user_id |-> u,
          total_bag |-> SumWeights(Ranked({x \in A : x.user_id = u}, TopN)),
          fish_count |-> Cardinality(Ranked({x \in A : x.user_id = u}, TopN))] :
            u \in {w.user_id : w \in A}}

\* the results getTotalBagLeaderboard may return
getTotalBagLeaderboard(W, guildId, tournamentId) ==
    {Take(s, Limit) : s \in Orderings(TotalBagGroups(W, guildId, tournamentId), "total_bag")}

SeqUsers(s) == {s[i].user_id : i \in 1..Len(s)}

RowOf(s, userId) == s[CHOOSE i \in 1..Len(s) : s[i].user_id = userId]

RankOf(s, userId) ==
    IF userId \in SeqUsers(s) THEN CHOOSE i \in 1..Len(s) : s[i].user_id = userId
    ELSE NULL

\* a row for every angler, in a leaderboard or not
SnapshotRowsEveryAngler(guildId, tournamentId, big, bag) ==
    {[guild_id |-> guildId, tournament_id |-> tournamentId, user_id |-> u,
      big_bass |-> IF u \in SeqUsers(big) THEN RowOf(big, u).big_bass ELSE 0,
      total_bag |-> IF u \in SeqUsers(bag) THEN RowOf(bag, u).total_bag ELSE 0,
      fish_count |-> IF u \in SeqUsers(bag) THEN RowOf(bag, u).fish_count ELSE 0,
      bag_rank |-> IF variant = "moderated" THEN RankOf(bag, u) ELSE NULL,
      big_rank |-> IF variant = "moderated" THEN RankOf(big, u) ELSE NULL,
      created_at |-> now] :
        u \in Users}

\* the anglers taken from the big bass leaderboard alone
SnapshotRowsBigOnly(guildId, tournamentId, big, bag) ==
    {[guild_id |-> guildId, tournament_id |-> tournamentId, user_id |-> u,
      big_bass |-> RowOf(big, u).big_bass,
      total_bag |-> IF u \in SeqUsers(bag) THEN RowOf(bag, u).total_bag ELSE 0,
      fish_count |-> IF u \in SeqUsers(bag) THEN RowOf(bag, u).fish_count ELSE 0,
      bag_rank |-> IF variant = "moderated" THEN RankOf(bag, u) ELSE NULL,
      big_rank |-> IF variant = "moderated" THEN RankOf(big, u) ELSE NULL,
      created_at |-> now] :
        u \in SeqUsers(big)}

\* the rows snapshotTournamentResults binds from the two leaderboards it read;
\* the panel bot stores no ranks
SnapshotRows(guildId, tournamentId, big, bag) ==
    {[guild_id |-> guildId, tournament_id |-> tournamentId, user_id |-> u,
      big_bass |-> IF u \in SeqUsers(big) THEN RowOf(big, u).big_bass ELSE 0,
      total_bag |-> IF u \in SeqUsers(bag) THEN RowOf(bag, u).total_bag ELSE 0,
      fish_count |-> IF u \in SeqUsers(bag) THEN RowOf(bag, u).fish_count ELSE 0,
      bag_rank |-> IF variant = "moderated" THEN RankOf(bag, u) ELSE NULL,
      big_rank |-> IF variant = "moderated" THEN RankOf(big, u) ELSE NULL,
      created_at |-> now] :
        u \in SeqUsers(big) \cup SeqUsers(bag)}

\* the rows snapshotTournamentResults writes from the ledger as it stands
SnapshotsOfLedger(guildId, tournamentId) ==
    {SnapshotRows(guildId, tournamentId, big, bag) :
        big \in getBigBassLeaderboard(weighins, guildId, tournamentId),
        bag \in getTotalBagLeaderboard(weighins, guildId, tournamentId)}

\* a plain INSERT
upsertResultsInsert(rows) == tournament_results \cup rows

\* the row already there replaced by the new one
upsertResultsReplace(rows) ==
    {r \in tournament_results :
        ~\E n \in rows : n.tournament_id = r.tournament_id /\ n.user_id = r.user_id}
    \cup rows

\* INSERT ... ON CONFLICT(tournament_id, user_id) DO UPDATE: a row already
\* there keeps its guild_id and created_at and takes the new values
upsertResults(rows) ==
    {r \in tournament_results :
        ~\E n \in rows : n.tournament_id = r.tournament_id /\ n.user_id = r.user_id}
    \cup
    {IF \E r \in tournament_results :
            r.tournament_id = n.tournament_id /\ r.user_id = n.user_id
        THEN LET old == CHOOSE r \in tournament_results :
                            r.tournament_id = n.tournament_id /\ r.user_id = n.user_id
             IN  [n EXCEPT !.guild_id = old.guild_id, !.created_at = old.created_at]
        ELSE n : n \in rows}

\* ---------------------------------------------------------------- periods
\* strftime('%Y-%m', at) and strftime('%Y', at) as the number of the month
\* and of the year
strftime(format, at) ==
    IF format = "%Y-%m" THEN (at - 1) \div MinutesPerMonth + 1
    ELSE ((at - 1) \div MinutesPerMonth) \div MonthsPerYear + 1

\* the period condition dropped
PeriodRowsAnyPeriod(guildId, format, period) ==
    {r \in tournament_results :
        /\ r.guild_id = guildId
        /\ \E t \in tournaments : t.id = r.tournament_id /\ t.ended_at # NULL}

\* the approved weigh-ins of the guild read as results of the period as well
PeriodRowsAndWeighins(guildId, format, period) ==
    {r \in tournament_results :
        /\ r.guild_id = guildId
        /\ \E t \in tournaments : /\ t.id = r.tournament_id
                                   /\ t.ended_at # NULL
                                   /\ strftime(format, t.ended_at) = period}
    \cup
    {[guild_id |-> w.guild_id, tournament_id |-> w.tournament_id,
      user_id |-> w.user_id, big_bass |-> w.weight_lbs, total_bag |-> w.weight_lbs,
      big_rank |-> 1, bag_rank |-> 1, created_at |-> now] :
        w \in {x \in weighins : x.guild_id = guildId /\ x.status = "approved"}}

\* tournament_results tr JOIN tournaments t ON t.id = tr.tournament_id
\* WHERE tr.guild_id = ? AND t.ended_at IS NOT NULL AND strftime(.., t.ended_at) = ?
PeriodRows(guildId, format, period) ==
    {r \in tournament_results :
        /\ r.guild_id = guildId
        /\ \E t \in tournaments : /\ t.id = r.tournament_id
                                   /\ t.ended_at # NULL
                                   /\ strftime(format, t.ended_at) = period}

RECURSIVE SumTotalBag(_)
SumTotalBag(S) ==
    IF S = {} THEN 0
    ELSE LET x == CHOOSE y \in S : TRUE IN x.total_bag + SumTotalBag(S \ {x})

\* SELECT tr.user_id, SUM(tr.total_bag), MAX(tr.big_bass),
\* COUNT(DISTINCT tr.tournament_id) ... GROUP BY tr.user_id
PeriodGroups(guildId, format, period) ==
    LET P == PeriodRows(guildId, format, period)
    IN  {[user_id |-> u,
          total_bag |-> SumTotalBag({r \in P : r.user_id = u}),
          big_bass |-> Max({r.big_bass : r \in {x \in P : x.user_id = u}}),
          tournaments_count |->
                Cardinality({r.tournament_id : r \in {x \in P : x.user_id = u}})] :
            u \in {r.user_id : r \in P}}

\* the second sort key dropped
OrderingsByTotalBagAlone(rows) == Orderings(rows, "total_bag")

\* ORDER BY total_bag DESC, big_bass DESC of rows grouped by user_id; rows
\* equal in both come in the order of the build
OrderingsByTotalBag(rows) ==
    {s \in [1..Cardinality(rows) -> rows] :
        /\ \A i, j \in 1..Cardinality(rows) : i # j => s[i] # s[j]
        /\ \A i, j \in 1..Cardinality(rows) :
                i < j => \/ s[i].total_bag > s[j].total_bag
                         \/ /\ s[i].total_bag = s[j].total_bag
                            /\ s[i].big_bass > s[j].big_bass
                         \/ /\ s[i].total_bag = s[j].total_bag
                            /\ s[i].big_bass = s[j].big_bass
                            /\ TiePlace(s[i].user_id) < TiePlace(s[j].user_id)}

\* the results getMonthLeaderboard may return
getMonthLeaderboard(guildId, yyyyMm) ==
    {[i \in 1..Len(s) |->
        [user_id |-> s[i].user_id, month_total_bag |-> s[i].total_bag,
         month_big_bass |-> s[i].big_bass, tournaments_count |-> s[i].tournaments_count]] :
        s \in UNION {{Take(o, Limit) : o \in OrderingsByTotalBag(agg)} :
                    agg \in {PeriodGroups(guildId, "%Y-%m", yyyyMm)}}}

\* the results getYearLeaderboard may return
getYearLeaderboard(guildId, yyyy) ==
    {[i \in 1..Len(s) |->
        [user_id |-> s[i].user_id, year_total_bag |-> s[i].total_bag,
         year_big_bass |-> s[i].big_bass, tournaments_count |-> s[i].tournaments_count]] :
        s \in UNION {{Take(o, Limit) : o \in OrderingsByTotalBag(agg)} :
                    agg \in {PeriodGroups(guildId, "%Y", yyyy)}}}

\* the first sort key dropped
OrderingsByBigBassAlone(rows) == OrderingsByTotalBag(rows)

\* ORDER BY best_big DESC, bag_sum DESC of rows grouped by user_id; rows
\* equal in both come in the order of the build
OrderingsByBigBass(rows) ==
    {s \in [1..Cardinality(rows) -> rows] :
        /\ \A i, j \in 1..Cardinality(rows) : i # j => s[i] # s[j]
        /\ \A i, j \in 1..Cardinality(rows) :
                i < j => \/ s[i].big_bass > s[j].big_bass
                         \/ /\ s[i].big_bass = s[j].big_bass
                            /\ s[i].total_bag > s[j].total_bag
                         \/ /\ s[i].big_bass = s[j].big_bass
                            /\ s[i].total_bag = s[j].total_bag
                            /\ TiePlace(s[i].user_id) < TiePlace(s[j].user_id)}

\* SQL NULL of a user id column
NoUser == "none"

\* the row of four scalar subqueries over agg: the first row of each
\* ordering, NULL in every column when agg is empty
SummaryWinners(agg) ==
    {[bag_winner_id |-> IF Len(a) = 0 THEN NoUser ELSE a[1].user_id,
      bag_winner_bag |-> IF Len(a) = 0 THEN NULL ELSE a[1].total_bag,
      big_winner_id |-> IF Len(b) = 0 THEN NoUser ELSE b[1].user_id,
      big_winner_big |-> IF Len(b) = 0 THEN NULL ELSE b[1].big_bass] :
        a \in OrderingsByTotalBag(agg), b \in OrderingsByBigBass(agg)}

\* the rows getMonthSummaryWinners may return
getMonthSummaryWinners(guildId, yyyyMm) ==
    UNION {SummaryWinners(agg) : agg \in {PeriodGroups(guildId, "%Y-%m", yyyyMm)}}

\* the rows getYearSummaryWinners may return
getYearSummaryWinners(guildId, yyyy) ==
    UNION {SummaryWinners(agg) : agg \in {PeriodGroups(guildId, "%Y", yyyy)}}

\* ---------------------------------------------------------------- chat surface
\* what a call to the chat surface meets: every call succeeds, fetches
\* succeed while send and edit fail, or every call fails
Surface == {"up", "readonly", "down"}

\* messageId of an ensureMessage that threw
Thrown == -1

\* winners passed as null
NoWinners ==
    [bag_winner_id |-> NoUser, bag_winner_bag |-> NULL,
     big_winner_id |-> NoUser, big_winner_big |-> NULL]

\* the embeds, by what they show: the tournament and its rows, or the
\* period and its winners
bigBassCurrentEmbed(tournamentId, rows) ==
    [kind |-> "bigbass", id |-> tournamentId, rows |-> rows]

top5Embed(tournamentId, rows) ==
    [kind |-> "top5", id |-> tournamentId, rows |-> rows]

monthlyWinnersEmbed(yyyyMm, winners) ==
    [kind |-> "monthly", id |-> yyyyMm, rows |-> <<winners>>]

yearlyWinnersEmbed(yyyy, winners) ==
    [kind |-> "yearly", id |-> yyyy, rows |-> <<winners>>]

\* the review post of a weigh-in: its embed and its approve and reject buttons
reviewEmbed(weighInId) ==
    [kind |-> "review", id |-> weighInId, rows |-> <<>>]

\* a message of a channel of a guild
Message(guildId, channelId, embed) ==
    [guild_id |-> guildId, channel_id |-> channelId, kind |-> embed.kind,
     id |-> embed.id, rows |-> embed.rows]

\* a message found by its id in whatever channel of the guild it is
ResolvesAnyChannel(M, guildId, channelId, messageId) ==
    /\ messageId \in 1..Len(M)
    /\ M[messageId].guild_id = guildId
    /\ M[messageId].channel_id # NoChannel

\* channel.messages.fetch(messageId) of a channel of the guild resolves
Resolves(M, guildId, channelId, messageId) ==
    /\ messageId \in 1..Len(M)
    /\ M[messageId].guild_id = guildId
    /\ M[messageId].channel_id = channelId

\* a placeholder sent at every call
ensureMessageAlwaysSend(M, net, guildId, channelId, existingMessageId, createEmbed) ==
    IF net = "down" THEN [messages |-> M, messageId |-> NULL]
    ELSE IF net = "readonly" THEN [messages |-> M, messageId |-> Thrown]
    ELSE [messages |-> Append(M, Message(guildId, channelId, createEmbed)),
          messageId |-> Len(M) + 1]

\* ensureMessage on the surface M: no channel gives no id; a stored id that
\* resolves is returned; otherwise the placeholder is sent and its id returned
ensureMessage(M, net, guildId, channelId, existingMessageId, createEmbed) ==
    IF net = "down" THEN [messages |-> M, messageId |-> NULL]
    ELSE IF Resolves(M, guildId, channelId, existingMessageId)
         THEN [messages |-> M, messageId |-> existingMessageId]
    ELSE IF net = "readonly" THEN [messages |-> M, messageId |-> Thrown]
    ELSE [messages |-> Append(M, Message(guildId, channelId, createEmbed)),
          messageId |-> Len(M) + 1]

\* msg.edit of updateAutoEmbeds inside its try block: a failure is swallowed
editMessage(M, net, guildId, channelId, messageId, embed) ==
    IF net = "up" /\ Resolves(M, guildId, channelId, messageId)
    THEN [M EXCEPT ![messageId] = Message(guildId, channelId, embed)]
    ELSE M

\* a patch of upsertConfig that names no column
NoPatch ==
    [panel_channel_id |-> NoChannel, bigbass_channel_id |-> NoChannel,
     top5_channel_id |-> NoChannel, results_channel_id |-> NoChannel,
     cur_bigbass_msg_id |-> NULL, cur_top5_msg_id |-> NULL,
     monthly_winners_msg_id |-> NULL, yearly_winners_msg_id |-> NULL]

\* upsertConfig of the panel bot: INSERT ... ON CONFLICT(guild_id) DO UPDATE
\* SET column = COALESCE(excluded.column, config.column)
upsertConfig(guildId, patch) ==
    [config EXCEPT ![guildId] =
        [@ EXCEPT
            !.panel_channel_id =
                IF patch.panel_channel_id # NoChannel THEN patch.panel_channel_id ELSE @,
            !.bigbass_channel_id =
                IF patch.bigbass_channel_id # NoChannel THEN patch.bigbass_channel_id ELSE @,
            !.top5_channel_id =
                IF patch.top5_channel_id # NoChannel THEN patch.top5_channel_id ELSE @,
            !.results_channel_id =
                IF patch.results_channel_id # NoChannel THEN patch.results_channel_id ELSE @,
            !.cur_bigbass_msg_id =
                IF patch.cur_bigbass_msg_id # NULL THEN patch.cur_bigbass_msg_id ELSE @,
            !.cur_top5_msg_id =
                IF patch.cur_top5_msg_id # NULL THEN patch.cur_top5_msg_id ELSE @,
            !.monthly_winners_msg_id =
                IF patch.monthly_winners_msg_id # NULL
                THEN patch.monthly_winners_msg_id ELSE @,
            !.yearly_winners_msg_id =
                IF patch.yearly_winners_msg_id # NULL
                THEN patch.yearly_winners_msg_id ELSE @]]

\* !cfg?.bigbass_channel_id || !cfg?.top5_channel_id || !cfg?.results_channel_id
ChannelsMissing(cfg) ==
    \/ cfg.bigbass_channel_id = NoChannel
    \/ cfg.top5_channel_id = NoChannel
    \/ cfg.results_channel_id = NoChannel

\* ---------------------------------------------------------------- actions
Tick(d) ==
    /\ now' = now + d
    /\ ticks' = ticks + 1
    /\ UNCHANGED <<variant, tieOrder, messages, tables, handlers, reply>>

\* start_tournament_modal replying at once, updateAutoEmbeds left out
StartTournamentReplyOnly(h, guildId) ==
    /\ CanBegin(h)
    /\ tournaments' = startTournament(guildId)
    /\ nextTournamentId' = nextTournamentId + 1
    /\ Finish(h, [Idle EXCEPT !.kind = "start", !.guild_id = guildId,
                              !.written = nextTournamentId],
              "ok", nextTournamentId)
    /\ UNCHANGED <<variant, tieOrder, messages, now, ticks, config, uploads, weighins,
                   nextWeighinId, tournament_results>>

\* start_tournament command (moderated) and start_tournament_modal (panel):
\* startTournament; the command replies, the modal goes on to updateAutoEmbeds
StartTournament(h, guildId) ==
    /\ CanBegin(h)
    /\ tournaments' = startTournament(guildId)
    /\ nextTournamentId' = nextTournamentId + 1
    /\ LET rec == [Idle EXCEPT !.kind = "start", !.guild_id = guildId,
                               !.written = nextTournamentId]
       IN  IF variant = "panel"
           THEN Continue(h, [rec EXCEPT !.pc = "updateGetConfig"])
           ELSE Finish(h, rec, "ok", nextTournamentId)
    /\ UNCHANGED <<variant, tieOrder, messages, now, ticks, config, uploads, weighins, nextWeighinId,
                   tournament_results>>

\* end_tournament button (panel): the handler has read the active tournament
EndButton(h, guildId) ==
    /\ variant = "panel"
    /\ CanBegin(h)
    /\ LET rec == [Idle EXCEPT !.kind = "end", !.guild_id = guildId]
           active == getActiveTournament(guildId)
       IN  IF active = NULL THEN Finish(h, rec, "NotFound", NULL)
           ELSE Continue(h, [rec EXCEPT !.pc = "endTournament", !.active = active])
    /\ UNCHANGED <<variant, tieOrder, messages, now, ticks, tables>>

\* end_tournament command (moderated): getActiveTournament
EndCommand(h, guildId) ==
    /\ variant = "moderated"
    /\ CanBegin(h)
    /\ LET rec == [Idle EXCEPT !.kind = "end", !.guild_id = guildId]
           active == getActiveTournament(guildId)
       IN  IF active = NULL THEN Finish(h, rec, "NotFound", NULL)
           ELSE Continue(h, [rec EXCEPT !.pc = "endGetConfig", !.active = active])
    /\ UNCHANGED <<variant, tieOrder, messages, now, ticks, tables>>

\* the results channel looked up after endTournament has run
EndCommandGetConfigAfterEnd(h) ==
    /\ handlers[h].pc = "endGetConfig"
    /\ tournaments' = endTournament(handlers[h].guild_id, handlers[h].active)
    /\ IF getConfig(handlers[h].guild_id).results_channel_id = NoChannel
       THEN Finish(h, handlers[h], "NoResultsChannel", NULL)
       ELSE Continue(h, [handlers[h] EXCEPT !.pc = "snapshotBig"])
    /\ UNCHANGED <<variant, tieOrder, messages, now, ticks, config, nextTournamentId,
                   uploads, weighins, nextWeighinId, tournament_results>>

\* end_tournament command (moderated): getConfig, results channel required
EndCommandGetConfig(h) ==
    /\ handlers[h].pc = "endGetConfig"
    /\ IF getConfig(handlers[h].guild_id).results_channel_id = NoChannel
       THEN Finish(h, handlers[h], "NoResultsChannel", NULL)
       ELSE Continue(h, [handlers[h] EXCEPT !.pc = "endTournament"])
    /\ UNCHANGED <<variant, tieOrder, messages, now, ticks, tables>>

\* await endTournament(guildId, active.id)
EndTournament(h) ==
    /\ handlers[h].pc = "endTournament"
    /\ tournaments' = endTournament(handlers[h].guild_id, handlers[h].active)
    /\ Continue(h, [handlers[h] EXCEPT !.pc = "snapshotBig"])
    /\ UNCHANGED <<variant, tieOrder, messages, now, ticks, config, nextTournamentId, uploads, weighins,
                   nextWeighinId, tournament_results>>

\* snapshotTournamentResults: await getBigBassLeaderboard
SnapshotBig(h) ==
    /\ handlers[h].pc = "snapshotBig"
    /\ \E big \in getBigBassLeaderboard(weighins, handlers[h].guild_id, handlers[h].active) :
            Continue(h, [handlers[h] EXCEPT !.pc = "snapshotBag", !.big = big])
    /\ UNCHANGED <<variant, tieOrder, messages, now, ticks, tables>>

\* snapshotTournamentResults: await getTotalBagLeaderboard
SnapshotBag(h) ==
    /\ handlers[h].pc = "snapshotBag"
    /\ \E bag \in getTotalBagLeaderboard(weighins, handlers[h].guild_id, handlers[h].active) :
            Continue(h, [handlers[h] EXCEPT !.pc = "snapshotWrite", !.bag = bag])
    /\ UNCHANGED <<variant, tieOrder, messages, now, ticks, tables>>

\* snapshotTournamentResults: the upserts of one db.serialize block
SnapshotWrite(h) ==
    /\ handlers[h].pc = "snapshotWrite"
    /\ tournament_results' =
            upsertResults(SnapshotRows(handlers[h].guild_id, handlers[h].active,
                                       handlers[h].big, handlers[h].bag))
    /\ Continue(h, [handlers[h] EXCEPT !.pc = "postFinalStandings",
                                       !.written = handlers[h].active])
    /\ UNCHANGED <<variant, tieOrder, messages, now, ticks, config, tournaments, nextTournamentId, uploads,
                   weighins, nextWeighinId>>

\* postFinalStandings undoing the snapshot when the results channel cannot
\* be reached
PostFinalStandingsRollback(h, net) ==
    /\ handlers[h].pc = "postFinalStandings"
    /\ IF net # "up"
       THEN /\ Finish(h, handlers[h], "Failed", NULL)
            /\ tournament_results' =
                    {r \in tournament_results : r.tournament_id # handlers[h].active}
       ELSE /\ UNCHANGED tournament_results
            /\ IF variant = "panel"
               THEN Continue(h, [handlers[h] EXCEPT !.pc = "updateGetConfig"])
               ELSE Finish(h, handlers[h], "ok", handlers[h].written)
    /\ UNCHANGED <<variant, tieOrder, messages, now, ticks, config, tournaments,
                   nextTournamentId, uploads, weighins, nextWeighinId>>

\* postFinalStandings: both leaderboards are read, the results channel is
\* fetched and the three embeds are sent; a failure is thrown to the handler,
\* which replies that something went wrong. The command (moderated) then
\* replies, the button (panel) goes on to updateAutoEmbeds
PostFinalStandings(h, net) ==
    /\ handlers[h].pc = "postFinalStandings"
    /\ IF net # "up" THEN Finish(h, handlers[h], "Failed", NULL)
       ELSE IF variant = "panel"
            THEN Continue(h, [handlers[h] EXCEPT !.pc = "updateGetConfig"])
       ELSE Finish(h, handlers[h], "ok", handlers[h].written)
    /\ UNCHANGED <<variant, tieOrder, messages, now, ticks, tables>>

\* updateAutoEmbeds: getConfig; when a channel is not set it returns and
\* the handler replies
UpdateAutoEmbedsGetConfig(h) ==
    /\ handlers[h].pc = "updateGetConfig"
    /\ LET rec == handlers[h]
           cfg == getConfig(rec.guild_id)
       IN  IF ChannelsMissing(cfg)
           THEN Finish(h, rec, "ok", rec.written)
           ELSE Continue(h, [rec EXCEPT !.pc = "ensureAll", !.cfg = cfg])
    /\ UNCHANGED <<variant, tieOrder, messages, now, ticks, tables>>

\* ensureAllAutoEmbeds, called by updateAutoEmbeds and, ahead of it, by
\* /panel and set_channels_modal: getConfig, ensureMessage of the four
\* embeds, upsertConfig of the four message ids; a send that fails is
\* thrown to the handler
EnsureAllAutoEmbeds(h, net) ==
    /\ handlers[h].pc \in {"ensureAll", "ensureFirst"}
    /\ LET rec == handlers[h]
           g == rec.guild_id
           cfg == getConfig(g)
           after == IF rec.pc = "ensureFirst" THEN "updateGetConfig" ELSE "updateRead"
           big == ensureMessage(messages, net, g, cfg.bigbass_channel_id,
                                cfg.cur_bigbass_msg_id, bigBassCurrentEmbed(NULL, <<>>))
           top5 == ensureMessage(big.messages, net, g, cfg.top5_channel_id,
                                 cfg.cur_top5_msg_id, top5Embed(NULL, <<>>))
           mon == ensureMessage(top5.messages, net, g, cfg.results_channel_id,
                                cfg.monthly_winners_msg_id,
                                monthlyWinnersEmbed(strftime("%Y-%m", now), NoWinners))
           yr == ensureMessage(mon.messages, net, g, cfg.results_channel_id,
                               cfg.yearly_winners_msg_id,
                               yearlyWinnersEmbed(strftime("%Y", now), NoWinners))
       IN  IF ChannelsMissing(cfg)
           THEN /\ Continue(h, [rec EXCEPT !.pc = after])
                /\ UNCHANGED <<messages, config>>
           ELSE IF Thrown \in {big.messageId, top5.messageId, mon.messageId, yr.messageId}
           THEN /\ Finish(h, rec, "Failed", NULL)
                /\ UNCHANGED <<messages, config>>
           ELSE /\ messages' = yr.messages
                /\ config' = upsertConfig(g,
                        [NoPatch EXCEPT !.cur_bigbass_msg_id = big.messageId,
                                        !.cur_top5_msg_id = top5.messageId,
                                        !.monthly_winners_msg_id = mon.messageId,
                                        !.yearly_winners_msg_id = yr.messageId])
                /\ Continue(h, [rec EXCEPT !.pc = after])
    /\ UNCHANGED <<variant, tieOrder, now, ticks, tournaments, nextTournamentId, uploads,
                   weighins, nextWeighinId, tournament_results>>

\* ensureAllAutoEmbeds statement by statement, for handlers that run side
\* by side. First its getConfig: the row is kept for the ensureMessage calls
EnsureAllGetConfig(h) ==
    /\ handlers[h].pc \in {"ensureAll", "ensureFirst"}
    /\ LET rec == handlers[h]
           cfg == getConfig(rec.guild_id)
       IN  IF ChannelsMissing(cfg)
           THEN Continue(h, [rec EXCEPT !.pc = IF rec.pc = "ensureFirst"
                                                THEN "updateGetConfig"
                                                ELSE "updateRead"])
           ELSE Continue(h, [rec EXCEPT !.pc = IF rec.pc = "ensureFirst"
                                                THEN "ensureFirstSend"
                                                ELSE "ensureAllSend",
                                        !.ensured = cfg])
    /\ UNCHANGED <<variant, tieOrder, messages, now, ticks, tables>>

\* then the four ensureMessage calls over the row read: the ids they return
\* are kept for upsertConfig; a send that fails is thrown to the handler
EnsureAllSend(h, net) ==
    /\ handlers[h].pc \in {"ensureAllSend", "ensureFirstSend"}
    /\ LET rec == handlers[h]
           g == rec.guild_id
           cfg == rec.ensured
           big == ensureMessage(messages, net, g, cfg.bigbass_channel_id,
                                cfg.cur_bigbass_msg_id, bigBassCurrentEmbed(NULL, <<>>))
           top5 == ensureMessage(big.messages, net, g, cfg.top5_channel_id,
                                 cfg.cur_top5_msg_id, top5Embed(NULL, <<>>))
           mon == ensureMessage(top5.messages, net, g, cfg.results_channel_id,
                                cfg.monthly_winners_msg_id,
                                monthlyWinnersEmbed(strftime("%Y-%m", now), NoWinners))
           yr == ensureMessage(mon.messages, net, g, cfg.results_channel_id,
                               cfg.yearly_winners_msg_id,
                               yearlyWinnersEmbed(strftime("%Y", now), NoWinners))
       IN  IF Thrown \in {big.messageId, top5.messageId, mon.messageId, yr.messageId}
           THEN /\ Finish(h, rec, "Failed", NULL)
                /\ UNCHANGED messages
           ELSE /\ messages' = yr.messages
                /\ Continue(h, [rec EXCEPT
                        !.pc = IF rec.pc = "ensureFirstSend" THEN "ensureFirstUpsert"
                               ELSE "ensureAllUpsert",
                        !.ensured = [cfg EXCEPT !.cur_bigbass_msg_id = big.messageId,
                                                !.cur_top5_msg_id = top5.messageId,
                                                !.monthly_winners_msg_id = mon.messageId,
                                                !.yearly_winners_msg_id = yr.messageId]])
    /\ UNCHANGED <<variant, tieOrder, now, ticks, tables>>

\* then upsertConfig of the four message ids
EnsureAllUpsert(h) ==
    /\ handlers[h].pc \in {"ensureAllUpsert", "ensureFirstUpsert"}
    /\ LET rec == handlers[h]
       IN  /\ config' = upsertConfig(rec.guild_id,
                    [NoPatch EXCEPT
                        !.cur_bigbass_msg_id = rec.ensured.cur_bigbass_msg_id,
                        !.cur_top5_msg_id = rec.ensured.cur_top5_msg_id,
                        !.monthly_winners_msg_id = rec.ensured.monthly_winners_msg_id,
                        !.yearly_winners_msg_id = rec.ensured.yearly_winners_msg_id])
           /\ Continue(h, [rec EXCEPT !.pc = IF rec.pc = "ensureFirstUpsert"
                                              THEN "updateGetConfig"
                                              ELSE "updateRead"])
    /\ UNCHANGED <<variant, tieOrder, messages, now, ticks, tournaments, nextTournamentId,
                   uploads, weighins, nextWeighinId, tournament_results>>

\* updateAutoEmbeds: getActiveTournament, both leaderboards of the active
\* tournament, the winners of the current month and year
UpdateAutoEmbedsRead(h) ==
    /\ handlers[h].pc = "updateRead"
    /\ LET rec == handlers[h]
           g == rec.guild_id
           active == getActiveTournament(g)
       IN  \E bigRows \in IF active = NULL THEN {<<>>}
                           ELSE getBigBassLeaderboard(weighins, g, active),
              bagRows \in IF active = NULL THEN {<<>>}
                           ELSE getTotalBagLeaderboard(weighins, g, active),
              monthW \in getMonthSummaryWinners(g, strftime("%Y-%m", now)),
              yearW \in getYearSummaryWinners(g, strftime("%Y", now)) :
                Continue(h, [rec EXCEPT !.pc = "updatePush", !.cur = active,
                                        !.big = bigRows, !.bag = bagRows,
                                        !.yyyyMm = strftime("%Y-%m", now),
                                        !.yyyy = strftime("%Y", now),
                                        !.monthW = <<monthW>>, !.yearW = <<yearW>>])
    /\ UNCHANGED <<variant, tieOrder, messages, now, ticks, tables>>

\* what updateAutoEmbeds renders from the rows it read
AutoEmbeds(rec) ==
    [cur_bigbass |-> bigBassCurrentEmbed(rec.cur, rec.big),
     cur_top5 |-> top5Embed(rec.cur, rec.bag),
     monthly_winners |-> monthlyWinnersEmbed(rec.yyyyMm, rec.monthW[1]),
     yearly_winners |-> yearlyWinnersEmbed(rec.yyyy, rec.yearW[1])]

\* updateAutoEmbeds: the four edits, each through the channel and the message
\* id of the config row read at the start of updateAutoEmbeds
UpdateAutoEmbedsPush(h, net) ==
    /\ handlers[h].pc = "updatePush"
    /\ LET rec == handlers[h]
           g == rec.guild_id
           cfg == rec.cfg
           embeds == AutoEmbeds(rec)
           m1 == editMessage(messages, net, g, cfg.bigbass_channel_id,
                             cfg.cur_bigbass_msg_id, embeds.cur_bigbass)
           m2 == editMessage(m1, net, g, cfg.top5_channel_id,
                             cfg.cur_top5_msg_id, embeds.cur_top5)
           m3 == editMessage(m2, net, g, cfg.results_channel_id,
                             cfg.monthly_winners_msg_id, embeds.monthly_winners)
       IN  messages' = editMessage(m3, net, g, cfg.results_channel_id,
                                   cfg.yearly_winners_msg_id, embeds.yearly_winners)
    /\ Continue(h, [handlers[h] EXCEPT !.pc = "reply"])
    /\ UNCHANGED <<variant, tieOrder, now, ticks, tables>>

\* the handler of the panel bot is back from updateAutoEmbeds: /panel sends
\* the panel and replies, the others reply
Reply(h, net) ==
    /\ handlers[h].pc = "reply"
    /\ IF handlers[h].kind = "panel" /\ net # "up"
       THEN Finish(h, handlers[h], "Failed", NULL)
       ELSE Finish(h, handlers[h], "ok", handlers[h].written)
    /\ UNCHANGED <<variant, tieOrder, messages, now, ticks, tables>>

\* messageCreate with an image attachment (panel)
MessageCreate(guildId, channelId, userId) ==
    /\ variant = "panel"
    /\ uploads' = insertUpload(guildId, channelId, userId)
    /\ UNCHANGED <<variant, tieOrder, messages, now, ticks, config, tournaments, nextTournamentId, weighins,
                   nextWeighinId, tournament_results, handlers, reply>>

\* /panel (panel): getConfig
PanelCommand(h, guildId, channelId) ==
    /\ variant = "panel"
    /\ CanBegin(h)
    /\ Continue(h, [Idle EXCEPT !.kind = "panel", !.pc = "panelUpsert",
                                !.guild_id = guildId, !.channel_id = channelId,
                                !.cfg = getConfig(guildId)])
    /\ UNCHANGED <<variant, tieOrder, messages, now, ticks, tables>>

\* /panel: upsertConfig of the panel channel, and of the channel of each
\* embed where the row read had none; ensureAllAutoEmbeds comes next
PanelUpsert(h) ==
    /\ handlers[h].pc = "panelUpsert"
    /\ LET rec == handlers[h]
           existing == rec.cfg
           orHere(channelId) == IF channelId # NoChannel THEN channelId
                                ELSE rec.channel_id
       IN  config' = upsertConfig(rec.guild_id,
                [NoPatch EXCEPT
                    !.panel_channel_id = rec.channel_id,
                    !.bigbass_channel_id = orHere(existing.bigbass_channel_id),
                    !.top5_channel_id = orHere(existing.top5_channel_id),
                    !.results_channel_id = orHere(existing.results_channel_id)])
    /\ Continue(h, [handlers[h] EXCEPT !.pc = "ensureFirst"])
    /\ UNCHANGED <<variant, tieOrder, messages, now, ticks, tournaments, nextTournamentId, uploads,
                   weighins, nextWeighinId, tournament_results>>

\* set_channels_modal (panel): upsertConfig of the four channels, the four
\* message ids passed as null; ensureAllAutoEmbeds comes next
SetChannels(h, guildId, panelId, bigId, topId, resId) ==
    /\ variant = "panel"
    /\ CanBegin(h)
    /\ config' = upsertConfig(guildId,
            [NoPatch EXCEPT !.panel_channel_id = panelId,
                            !.bigbass_channel_id = bigId,
                            !.top5_channel_id = topId,
                            !.results_channel_id = resId])
    /\ Continue(h, [Idle EXCEPT !.kind = "set_channels", !.pc = "ensureFirst",
                                !.guild_id = guildId])
    /\ UNCHANGED <<variant, tieOrder, messages, now, ticks, tournaments, nextTournamentId, uploads,
                   weighins, nextWeighinId, tournament_results>>

\* a member with the permission deletes a message the bot sent: the message
\* is in no channel any more
DeleteMessage(messageId) ==
    /\ messageId \in 1..Len(messages)
    /\ messages[messageId].channel_id # NoChannel
    /\ messages' = [messages EXCEPT ![messageId].channel_id = NoChannel]
    /\ UNCHANGED <<variant, tieOrder, now, ticks, tables, handlers, reply>>

\* weighin_modal (panel): getConfig
WeighinModal(h, guildId, channelId, userId, raw) ==
    /\ variant = "panel"
    /\ CanBegin(h)
    /\ Continue(h, [Idle EXCEPT !.kind = "weighin", !.pc = "modalGetActive",
                                !.guild_id = guildId, !.channel_id = channelId,
                                !.user_id = userId, !.raw = raw,
                                !.panel = getConfig(guildId).panel_channel_id])
    /\ UNCHANGED <<variant, tieOrder, messages, now, ticks, tables>>

\* weighin_modal: getActiveTournament, then the channel, tournament and
\* weight checks
WeighinModalGetActive(h) ==
    /\ handlers[h].pc = "modalGetActive"
    /\ LET rec == handlers[h]
           active == getActiveTournament(rec.guild_id)
           weight == Number(rec.raw)
       IN  IF rec.panel # NoChannel /\ rec.channel_id # rec.panel
                THEN Finish(h, rec, "WrongChannel", NULL)
           ELSE IF active = NULL
                THEN Finish(h, rec, "NotFound", NULL)
           ELSE IF ~weight.finite \/ weight.value <= 0
                THEN Finish(h, rec, "InvalidInput", NULL)
           ELSE Continue(h, [rec EXCEPT !.pc = "getLatestUpload", !.active = active,
                                        !.weight = weight.value])
    /\ UNCHANGED <<variant, tieOrder, messages, now, ticks, tables>>

\* weighin_modal: getLatestUpload
WeighinModalGetLatestUpload(h) ==
    /\ handlers[h].pc = "getLatestUpload"
    /\ LET rec == handlers[h]
       IN  \E latest \in getLatestUpload(rec.guild_id, rec.channel_id, rec.user_id) :
                IF latest = NULL THEN Finish(h, rec, "MissingEvidence", NULL)
                ELSE Continue(h, [rec EXCEPT !.pc = "modalInsert",
                                             !.photo = UploadRow(latest).image_url])
    /\ UNCHANGED <<variant, tieOrder, messages, now, ticks, tables>>

\* the upload consumed by the weigh-in that used it
WeighinModalInsertUsesUp(h) ==
    /\ handlers[h].pc = "modalInsert"
    /\ LET rec == handlers[h]
       IN  /\ weighins' = insertWeighIn(rec.guild_id, rec.channel_id, rec.active,
                                        rec.user_id, rec.weight, rec.photo, "approved")
           /\ uploads' = {u \in uploads : u.image_url # rec.photo}
    /\ nextWeighinId' = nextWeighinId + 1
    /\ Continue(h, [handlers[h] EXCEPT !.pc = "updateGetConfig",
                                       !.written = nextWeighinId])
    /\ UNCHANGED <<variant, tieOrder, messages, now, ticks, config, tournaments,
                   nextTournamentId, tournament_results>>

\* weighin_modal: insertWeighIn, status approved
WeighinModalInsert(h) ==
    /\ handlers[h].pc = "modalInsert"
    /\ LET rec == handlers[h]
       IN  weighins' = insertWeighIn(rec.guild_id, rec.channel_id, rec.active,
                                     rec.user_id, rec.weight, rec.photo, "approved")
    /\ nextWeighinId' = nextWeighinId + 1
    /\ Continue(h, [handlers[h] EXCEPT !.pc = "updateGetConfig",
                                       !.written = nextWeighinId])
    /\ UNCHANGED <<variant, tieOrder, messages, now, ticks, config, tournaments, nextTournamentId, uploads,
                   tournament_results>>

\* /setup (moderated): upsertConfig of all channels
Setup(guildId, reviewChannelId, resultsChannelId) ==
    /\ variant = "moderated"
    /\ config' = [config EXCEPT ![guildId].review_channel_id = reviewChannelId,
                                ![guildId].results_channel_id = resultsChannelId]
    /\ UNCHANGED <<variant, tieOrder, messages, now, ticks, tournaments, nextTournamentId, uploads, weighins,
                   nextWeighinId, tournament_results, handlers, reply>>

\* /weighin (moderated): getConfig; pounds passed the option's minimum
WeighinCommand(h, guildId, userId, pounds, contentType) ==
    /\ variant = "moderated"
    /\ CanBegin(h)
    /\ LET rec == [Idle EXCEPT !.kind = "weighin", !.guild_id = guildId,
                               !.user_id = userId, !.weight = pounds,
                               !.content_type = contentType,
                               !.cfg = getConfig(guildId)]
       IN  IF getConfig(guildId).review_channel_id = NoChannel
           THEN Finish(h, rec, "NotSetUp", NULL)
           ELSE Continue(h, [rec EXCEPT !.pc = "commandGetActive"])
    /\ UNCHANGED <<variant, tieOrder, messages, now, ticks, tables>>

\* /weighin: getActiveTournament, then the tournament and image checks
WeighinCommandGetActive(h) ==
    /\ handlers[h].pc = "commandGetActive"
    /\ LET rec == handlers[h]
           active == getActiveTournament(rec.guild_id)
       IN  IF active = NULL THEN Finish(h, rec, "NotFound", NULL)
           ELSE IF rec.content_type # "image"
                THEN Finish(h, rec, "MissingEvidence", NULL)
           ELSE Continue(h, [rec EXCEPT !.pc = "commandInsert", !.active = active])
    /\ UNCHANGED <<variant, tieOrder, messages, now, ticks, tables>>

\* /weighin: insertWeighIn, status pending by the column default
WeighinCommandInsert(h) ==
    /\ handlers[h].pc = "commandInsert"
    /\ LET rec == handlers[h]
       IN  weighins' = insertWeighIn(rec.guild_id, NoChannel, rec.active, rec.user_id,
                                     rec.weight, nextWeighinId, "pending")
    /\ nextWeighinId' = nextWeighinId + 1
    /\ Continue(h, [handlers[h] EXCEPT !.pc = "reviewPost",
                                       !.written = nextWeighinId])
    /\ UNCHANGED <<variant, tieOrder, messages, now, ticks, config, tournaments, nextTournamentId, uploads,
                   tournament_results>>

\* /weighin: the review channel is fetched and the review post is sent, with
\* its approve and reject buttons; a failure is thrown to the handler, which
\* replies that something went wrong
ReviewPost(h, net) ==
    /\ handlers[h].pc = "reviewPost"
    /\ LET rec == handlers[h]
       IN  IF net # "up"
           THEN /\ Finish(h, rec, "Failed", NULL)
                /\ UNCHANGED messages
           ELSE /\ messages' =
                        Append(messages,
                               Message(rec.guild_id, rec.cfg.review_channel_id,
                                       reviewEmbed(rec.written)))
                /\ Finish(h, rec, "ok", rec.written)
    /\ UNCHANGED <<variant, tieOrder, now, ticks, tables>>

\* the review posts of a guild that are still there
ReviewPosts(guildId) ==
    {i \in 1..Len(messages) : /\ messages[i].kind = "review"
                              /\ messages[i].guild_id = guildId
                              /\ messages[i].channel_id # NoChannel}

\* approve / reject button (moderated) on a review post of the guild: the
\* weigh-in id is the one the post was sent with
ReviewButton(guildId, weighInId, status) ==
    /\ variant = "moderated"
    /\ \E i \in ReviewPosts(guildId) : messages[i].id = weighInId
    /\ weighins' = setWeighInStatus(weighins, weighInId, status)
    /\ UNCHANGED <<variant, tieOrder, messages, now, ticks, config, tournaments, nextTournamentId, uploads,
                   nextWeighinId, tournament_results, handlers, reply>>

\* the three DELETEs without their WHERE clause
ResetTournamentDataEveryGuild(guildId) ==
    /\ variant = "moderated"
    /\ weighins' = {}
    /\ tournament_results' = {}
    /\ tournaments' = {}
    /\ UNCHANGED <<variant, tieOrder, messages, now, ticks, config, nextTournamentId, uploads,
                   nextWeighinId, handlers, reply>>

\* the DELETE of tournaments left out
ResetTournamentDataKeepTournaments(guildId) ==
    /\ variant = "moderated"
    /\ weighins' = {w \in weighins : w.guild_id # guildId}
    /\ tournament_results' = {r \in tournament_results : r.guild_id # guildId}
    /\ UNCHANGED <<variant, tieOrder, messages, now, ticks, config, tournaments,
                   nextTournamentId, uploads, nextWeighinId, handlers, reply>>

\* /reset_tournament_data (moderated): three DELETEs of one db.serialize block
ResetTournamentData(guildId) ==
    /\ variant = "moderated"
    /\ weighins' = {w \in weighins : w.guild_id # guildId}
    /\ tournament_results' = {r \in tournament_results : r.guild_id # guildId}
    /\ tournaments' = {t \in tournaments : t.guild_id # guildId}
    /\ UNCHANGED <<variant, tieOrder, messages, now, ticks, config, nextTournamentId, uploads,
                   nextWeighinId, handlers, reply>>

\* /bigbass and /totalbag (moderated): getActiveTournament
LeaderboardCommand(h, guildId, kind) ==
    /\ variant = "moderated"
    /\ CanBegin(h)
    /\ LET rec == [Idle EXCEPT !.kind = kind, !.guild_id = guildId]
           active == getActiveTournament(guildId)
       IN  IF active = NULL THEN Finish(h, rec, "NotFound", NULL)
           ELSE Continue(h, [rec EXCEPT !.pc = kind, !.active = active])
    /\ UNCHANGED <<variant, tieOrder, messages, now, ticks, tables>>

\* /bigbass: getBigBassLeaderboard of the active tournament, shown in the reply
BigBassCommandRows(h) ==
    /\ handlers[h].pc = "bigbass"
    /\ \E rows \in getBigBassLeaderboard(weighins, handlers[h].guild_id, handlers[h].active) :
            FinishRows(h, handlers[h], handlers[h].active, rows)
    /\ UNCHANGED <<variant, tieOrder, messages, now, ticks, tables>>

\* /totalbag: getTotalBagLeaderboard of the active tournament, shown in the reply
TotalBagCommandRows(h) ==
    /\ handlers[h].pc = "totalbag"
    /\ \E rows \in getTotalBagLeaderboard(weighins, handlers[h].guild_id, handlers[h].active) :
            FinishRows(h, handlers[h], handlers[h].active, rows)
    /\ UNCHANGED <<variant, tieOrder, messages, now, ticks, tables>>

\* /month_leaderboard (moderated): the month asked for or the current one,
\* the format check, getMonthLeaderboard, shown in the reply
MonthLeaderboardCommand(h, guildId, input) ==
    /\ variant = "moderated"
    /\ CanBegin(h)
    /\ LET rec == [Idle EXCEPT !.kind = "month_leaderboard", !.guild_id = guildId]
           yyyyMm == IF input = NULL THEN strftime("%Y-%m", now) ELSE input
       IN  IF yyyyMm = Malformed THEN Finish(h, rec, "InvalidInput", NULL)
           ELSE \E rows \in getMonthLeaderboard(guildId, yyyyMm) :
                    FinishRows(h, rec, yyyyMm, rows)
    /\ UNCHANGED <<variant, tieOrder, messages, now, ticks, tables>>

\* /year_leaderboard (moderated): getYearLeaderboard of the current year
YearLeaderboardCommand(h, guildId) ==
    /\ variant = "moderated"
    /\ CanBegin(h)
    /\ LET rec == [Idle EXCEPT !.kind = "year_leaderboard", !.guild_id = guildId]
           yyyy == strftime("%Y", now)
       IN  \E rows \in getYearLeaderboard(guildId, yyyy) :
                FinishRows(h, rec, yyyy, rows)
    /\ UNCHANGED <<variant, tieOrder, messages, now, ticks, tables>>

\* ---------------------------------------------------------------- specifications
\* the review posts of the weigh-ins of a ledger of the moderated bot, in
\* the order they were sent
RECURSIVE PostsOf(_)
PostsOf(W) ==
    IF W = {} THEN <<>>
    ELSE LET w == CHOOSE x \in W : \A y \in W : y.id <= x.id
         IN  Append(PostsOf(W \ {w}),
                    Message(w.guild_id, config[w.guild_id].review_channel_id,
                            reviewEmbed(w.id)))

Init ==
    /\ variant \in {"moderated", "panel"}
    /\ tieOrder \in TieOrders
    /\ now = 1
    /\ ticks = 0
    /\ config = [g \in Guilds |-> NoConfig]
    /\ tournaments = {}
    /\ nextTournamentId = 1
    /\ uploads = {}
    /\ weighins = {}
    /\ nextWeighinId = 1
    /\ tournament_results = {}
    /\ messages = <<>>
    /\ handlers = [h \in Slots |-> Idle]
    /\ reply = NoReply

\* the tournament lifecycle of two guilds: start, end, weigh-in and reset
\* handlers interleave at every await; one angler, one channel, the chat
\* surface up
Next ==
    \/ ticks < LifeTicks /\ Tick(1)
    \/ /\ nextTournamentId <= LifeTournaments
       /\ \E h \in Slots, g \in Guilds : StartTournament(h, g)
    \/ \E h \in Slots, g \in Guilds : EndButton(h, g)
    \/ \E h \in Slots, g \in Guilds : EndCommand(h, g)
    \/ \E h \in Slots : EndCommandGetConfig(h)
    \/ \E h \in Slots : EndTournament(h)
    \/ \E h \in Slots : SnapshotBig(h)
    \/ \E h \in Slots : SnapshotBag(h)
    \/ \E h \in Slots : SnapshotWrite(h)
    \/ \E h \in Slots : PostFinalStandings(h, "up")
    \/ \E h \in Slots : UpdateAutoEmbedsGetConfig(h)
    \/ /\ Cardinality(uploads) < LifeUploads
       /\ MessageCreate("g1", "c1", "u1")
    \/ /\ WeighinsBelow(LifeWeighins)
       /\ \E h \in Slots : WeighinModal(h, "g1", "c1", "u1", "1")
    \/ \E h \in Slots : WeighinModalGetActive(h)
    \/ \E h \in Slots : WeighinModalGetLatestUpload(h)
    \/ \E h \in Slots : WeighinModalInsert(h)
    \/ \E g \in Guilds : Setup(g, "c1", "c2")
    \/ /\ WeighinsBelow(LifeWeighins)
       /\ \E h \in Slots : WeighinCommand(h, "g1", "u1", 1, "image")
    \/ \E h \in Slots : WeighinCommandGetActive(h)
    \/ \E h \in Slots : WeighinCommandInsert(h)
    \/ \E h \in Slots : ReviewPost(h, "up")
    \/ \E g \in Guilds : ResetTournamentData(g)

Spec == Init /\ [][Next]_vars

\* weigh-in submission in guild g1: uploads of every guild, channel and angler,
\* every weight text, the clock crossing the recency window; one handler at
\* a time
SubmitUploaders ==
    {<<"g1", "c1", "u1">>, <<"g2", "c1", "u1">>, <<"g1", "c2", "u1">>,
     <<"g1", "c1", "u2">>}

NextSubmit ==
    \/ /\ ticks < SubmitTicks
       /\ \E d \in Deltas : Tick(d)
    \/ /\ nextTournamentId <= 1
       /\ StartTournament(1, "g1")
    \/ /\ Cardinality(uploads) < SubmitUploads
       /\ \E up \in SubmitUploaders : MessageCreate(up[1], up[2], up[3])
    \/ \E c \in Channels : PanelCommand(1, "g1", c)
    \/ \E h \in Slots : PanelUpsert(h)
    \/ \E h \in Slots : EnsureAllAutoEmbeds(h, "up")
    \/ \E h \in Slots : UpdateAutoEmbedsGetConfig(h)
    \/ \E h \in Slots : UpdateAutoEmbedsRead(h)
    \/ \E h \in Slots : UpdateAutoEmbedsPush(h, "up")
    \/ \E h \in Slots : Reply(h, "up")
    \/ /\ WeighinsBelow(SubmitWeighins)
       /\ \E c \in Channels, raw \in RawWeights : WeighinModal(1, "g1", c, "u1", raw)
    \/ \E h \in Slots : WeighinModalGetActive(h)
    \/ \E h \in Slots : WeighinModalGetLatestUpload(h)
    \/ \E h \in Slots : WeighinModalInsert(h)
    \/ Setup("g1", "c1", "c2")
    \/ /\ WeighinsBelow(SubmitWeighins)
       /\ \E ct \in ContentTypes : WeighinCommand(1, "g1", "u1", 1, ct)
    \/ \E h \in Slots : WeighinCommandGetActive(h)
    \/ \E h \in Slots : WeighinCommandInsert(h)
    \/ \E h \in Slots : ReviewPost(h, "up")

SpecSubmit == Init /\ [][NextSubmit]_vars

\* the moderated bot in guild g1: weigh-ins of two anglers in two tournaments
\* are approved and rejected, and the two leaderboards are queried
InitRank == Init /\ variant = "moderated"

NextRank ==
    \/ Setup("g1", "c1", "c2")
    \/ /\ nextTournamentId <= RankTournaments
       /\ StartTournament(1, "g1")
    \/ /\ WeighinsBelow(RankWeighins)
       /\ \E u \in Users, p \in Pounds : WeighinCommand(1, "g1", u, p, "image")
    \/ \E h \in Slots : WeighinCommandGetActive(h)
    \/ \E h \in Slots : WeighinCommandInsert(h)
    \/ \E h \in Slots : ReviewPost(h, "up")
    \/ \E id \in 1..RankWeighins, st \in {"approved", "rejected"} :
            ReviewButton("g1", id, st)
    \/ \E kind \in {"bigbass", "totalbag"} : LeaderboardCommand(1, "g1", kind)
    \/ \E h \in Slots : BigBassCommandRows(h)
    \/ \E h \in Slots : TotalBagCommandRows(h)

SpecRank == InitRank /\ [][NextRank]_vars

\* the moderated bot in guild g1 with one running tournament whose weigh-ins
\* are on record: the first k of angler u1, the others of angler u2, some of
\* them approved; /totalbag is queried
InitBag ==
    /\ variant = "moderated"
    /\ tieOrder \in TieOrders
    /\ now = 1
    /\ ticks = 0
    /\ config = [g \in Guilds |->
                    IF g # "g1" THEN NoConfig
                    ELSE [NoConfig EXCEPT !.review_channel_id = "c1",
                                          !.results_channel_id = "c2"]]
    /\ tournaments = {[id |-> 1, guild_id |-> "g1", is_active |-> TRUE, ended_at |-> NULL]}
    /\ nextTournamentId = 2
    /\ uploads = {}
    /\ \E ws \in BagLedgers, k \in 0..BagWeighins, approved \in SUBSET (1..BagWeighins) :
            /\ k <= Len(ws)
            /\ approved \subseteq 1..Len(ws)
            /\ weighins =
                    {[id |-> i, guild_id |-> "g1", channel_id |-> NoChannel,
                      tournament_id |-> 1,
                      user_id |-> IF i <= k THEN "u1" ELSE "u2",
                      weight_lbs |-> ws[i], photo_url |-> i,
                      status |-> IF i \in approved THEN "approved" ELSE "pending"] :
                        i \in 1..Len(ws)}
            /\ nextWeighinId = Len(ws) + 1
    /\ tournament_results = {}
    /\ messages = PostsOf(weighins)
    /\ handlers = [h \in Slots |-> Idle]
    /\ reply = NoReply

NextBag ==
    \/ LeaderboardCommand(1, "g1", "totalbag")
    \/ \E h \in Slots : TotalBagCommandRows(h)

SpecBag == InitBag /\ [][NextBag]_vars

\* the moderated bot in two guilds: weigh-ins of two anglers in the
\* tournaments of both guilds are approved and rejected, and /bigbass is
\* queried in guild g1
NextFrame ==
    \/ \E g \in Guilds : Setup(g, "c1", "c2")
    \/ /\ nextTournamentId <= FrameTournaments
       /\ \E g \in Guilds : StartTournament(1, g)
    \/ /\ WeighinsBelow(FrameWeighins)
       /\ \E g \in Guilds, u \in Users, p \in Pounds : WeighinCommand(1, g, u, p, "image")
    \/ \E h \in Slots : WeighinCommandGetActive(h)
    \/ \E h \in Slots : WeighinCommandInsert(h)
    \/ \E h \in Slots : ReviewPost(h, "up")
    \/ \E g \in Guilds, id \in 1..FrameWeighins, st \in {"approved", "rejected"} :
            ReviewButton(g, id, st)
    \/ LeaderboardCommand(1, "g1", "bigbass")
    \/ \E h \in Slots : BigBassCommandRows(h)

SpecFrame == InitRank /\ [][NextFrame]_vars

\* guild g1 with one running tournament whose weigh-ins of two anglers are
\* on record: approved on insert in the panel bot, each from an uploaded
\* photo, no channel set, and pending, approved or rejected in the
\* moderated bot, each with its review post; the
\* tournament is ended by up to two end_tournament handlers at once, and
\* a moderator goes on approving and rejecting the first weigh-in and may
\* reset the data of the guild
InitSnap ==
    /\ variant \in {"moderated", "panel"}
    /\ tieOrder \in TieOrders
    /\ now = 1
    /\ ticks = 0
    /\ config = [g \in Guilds |->
                    IF g # "g1" \/ variant = "panel" THEN NoConfig
                    ELSE [NoConfig EXCEPT !.review_channel_id = "c1",
                                          !.results_channel_id = "c2"]]
    /\ tournaments = {[id |-> 1, guild_id |-> "g1", is_active |-> TRUE, ended_at |-> NULL]}
    /\ nextTournamentId = 2
    /\ \E n \in 0..SnapWeighins :
        \E us \in [1..n -> Users], ws \in [1..n -> Pounds],
           ss \in [1..n -> {"pending", "approved", "rejected"}] :
            /\ variant = "panel" => \A i \in 1..n : ss[i] = "approved"
            /\ uploads =
                    IF variant = "panel"
                    THEN {[id |-> i, guild_id |-> "g1", channel_id |-> "c1",
                           user_id |-> us[i], image_url |-> i, created_at |-> now] :
                            i \in 1..n}
                    ELSE {}
            /\ weighins =
                    {[id |-> i, guild_id |-> "g1",
                      channel_id |-> IF variant = "panel" THEN "c1" ELSE NoChannel,
                      tournament_id |-> 1, user_id |-> us[i], weight_lbs |-> ws[i],
                      photo_url |-> i, status |-> ss[i]] : i \in 1..n}
            /\ nextWeighinId = n + 1
    /\ tournament_results = {}
    /\ messages = IF variant = "moderated" THEN PostsOf(weighins) ELSE <<>>
    /\ handlers = [h \in Slots |-> Idle]
    /\ reply = NoReply

NextSnap ==
    \/ ticks < SnapTicks /\ Tick(1)
    \/ \E h \in Slots : EndButton(h, "g1")
    \/ \E h \in Slots : EndCommand(h, "g1")
    \/ \E h \in Slots : EndCommandGetConfig(h)
    \/ \E h \in Slots : EndTournament(h)
    \/ \E h \in Slots : SnapshotBig(h)
    \/ \E h \in Slots : SnapshotBag(h)
    \/ \E h \in Slots : SnapshotWrite(h)
    \/ \E h \in Slots : PostFinalStandings(h, "up")
    \/ \E h \in Slots : UpdateAutoEmbedsGetConfig(h)
    \/ \E st \in {"approved", "rejected"} : ReviewButton("g1", 1, st)
    \/ ResetTournamentData("g1")

SpecSnap == InitSnap /\ [][NextSnap]_vars

\* the weigh-ins of a ledger that gives, for each ended tournament and
\* angler, the pounds of the angler's approved weigh-ins there
PeriodWeighins(guildOf, bags) ==
    {[id |-> ((x[1] - 1) * Cardinality(Users) + (TiePlace(x[2]) - 1)) * 2 + x[3],
      guild_id |-> guildOf[x[1]], channel_id |-> NoChannel, tournament_id |-> x[1],
      user_id |-> x[2], weight_lbs |-> bags[x[1], x[2]][x[3]],
      photo_url |-> ((x[1] - 1) * Cardinality(Users) + (TiePlace(x[2]) - 1)) * 2 + x[3],
      status |-> "approved"] :
        x \in {y \in (1..PeriodTournaments) \X Users \X (1..2) :
                    y[3] <= Len(bags[y[1], y[2]])}}

\* the moderated bot with PeriodTournaments ended tournaments on record, the
\* last one of guild g1, each with the results its /end_tournament wrote
\* from its approved weigh-ins, and in guild g1 possibly a running
\* tournament with an approved weigh-in; the month and year leaderboards
\* are queried in guild g1
InitPeriod ==
    /\ variant = "moderated"
    /\ tieOrder \in TieOrders
    /\ now \in EndTimes
    /\ ticks = 0
    /\ config = [g \in Guilds |-> [NoConfig EXCEPT !.review_channel_id = "c1",
                                                   !.results_channel_id = "c2"]]
    /\ uploads = {}
    /\ \E guildOf \in [1..PeriodTournaments -> Guilds],
          endedAt \in [1..PeriodTournaments -> EndTimes],
          bags \in [(1..PeriodTournaments) \X Users -> PeriodBags],
          running \in BOOLEAN :
            LET last == PeriodTournaments + 1
            IN  /\ guildOf[PeriodTournaments] = "g1"
                /\ \A i, j \in 1..PeriodTournaments : i < j => endedAt[i] <= endedAt[j]
                /\ endedAt[PeriodTournaments] <= now
                /\ tournaments =
                        {[id |-> i, guild_id |-> guildOf[i], is_active |-> FALSE,
                          ended_at |-> endedAt[i]] : i \in 1..PeriodTournaments}
                        \cup (IF running
                              THEN {[id |-> last, guild_id |-> "g1", is_active |-> TRUE,
                                     ended_at |-> NULL]}
                              ELSE {})
                /\ nextTournamentId = IF running THEN last + 1 ELSE last
                /\ weighins =
                        PeriodWeighins(guildOf, bags)
                        \cup (IF running
                                THEN {[id |-> 4 * PeriodTournaments + 1, guild_id |-> "g1",
                                       channel_id |-> NoChannel, tournament_id |-> last,
                                       user_id |-> "u1", weight_lbs |-> 2,
                                       photo_url |-> 4 * PeriodTournaments + 1,
                                       status |-> "approved"]}
                                ELSE {})
                /\ nextWeighinId = 4 * PeriodTournaments + 2
                /\ tournament_results =
                        UNION {{[r EXCEPT !.created_at = endedAt[i]] :
                                    r \in UNION SnapshotsOfLedger(guildOf[i], i)} :
                                i \in 1..PeriodTournaments}
    /\ messages = PostsOf(weighins)
    /\ handlers = [h \in Slots |-> Idle]
    /\ reply = NoReply

NextPeriod ==
    \/ \E input \in MonthInputs : MonthLeaderboardCommand(1, "g1", input)
    \/ YearLeaderboardCommand(1, "g1")

SpecPeriod == InitPeriod /\ [][NextPeriod]_vars

\* either bot with PeriodTournaments ended tournaments on record, each with
\* the results its end_tournament handler wrote from its approved weigh-ins,
\* and a running tournament in guild g1; in the panel bot every weigh-in has
\* its upload, in the moderated bot its review post
InitWinners ==
    /\ variant \in {"moderated", "panel"}
    /\ tieOrder \in TieOrders
    /\ now \in EndTimes
    /\ ticks = 0
    /\ config = [g \in Guilds |->
                    IF variant = "panel" THEN NoConfig
                    ELSE [NoConfig EXCEPT !.review_channel_id = "c1",
                                          !.results_channel_id = "c2"]]
    /\ \E guildOf \in [1..PeriodTournaments -> Guilds],
          endedAt \in [1..PeriodTournaments -> EndTimes],
          bags \in [(1..PeriodTournaments) \X Users -> WinnersBags] :
            LET last == PeriodTournaments + 1
            IN  /\ guildOf[PeriodTournaments] = "g1"
                /\ \A i, j \in 1..PeriodTournaments : i < j => endedAt[i] <= endedAt[j]
                /\ endedAt[PeriodTournaments] <= now
                /\ tournaments =
                        {[id |-> i, guild_id |-> guildOf[i], is_active |-> FALSE,
                          ended_at |-> endedAt[i]] : i \in 1..PeriodTournaments}
                        \cup {[id |-> last, guild_id |-> "g1", is_active |-> TRUE,
                               ended_at |-> NULL]}
                /\ nextTournamentId = last + 1
                /\ weighins =
                        {[w EXCEPT !.channel_id =
                                        IF variant = "panel" THEN "c1" ELSE NoChannel] :
                            w \in PeriodWeighins(guildOf, bags)}
                /\ nextWeighinId = 4 * PeriodTournaments + 1
                /\ tournament_results =
                        UNION {{[r EXCEPT !.created_at = endedAt[i]] :
                                    r \in UNION SnapshotsOfLedger(guildOf[i], i)} :
                                i \in 1..PeriodTournaments}
    /\ uploads =
            IF variant = "panel"
            THEN {[id |-> Cardinality({x \in weighins : x.id <= w.id}),
                   guild_id |-> w.guild_id, channel_id |-> w.channel_id,
                   user_id |-> w.user_id, image_url |-> w.photo_url,
                   created_at |-> 1] : w \in weighins}
            ELSE {}
    /\ messages = IF variant = "moderated" THEN PostsOf(weighins) ELSE <<>>
    /\ handlers = [h \in Slots |-> Idle]
    /\ reply = NoReply

\* over that ledger, in guild g1: /panel sets the channels and brings the
\* four embeds up to date, an angler submits a weigh-in to the running
\* tournament, and a moderator approves and rejects it; one handler at a
\* time, the chat surface up
NextWinners ==
    \/ PanelCommand(1, "g1", "c1")
    \/ \E h \in Slots : PanelUpsert(h)
    \/ \E h \in Slots : EnsureAllAutoEmbeds(h, "up")
    \/ \E h \in Slots : UpdateAutoEmbedsGetConfig(h)
    \/ \E h \in Slots : UpdateAutoEmbedsRead(h)
    \/ \E h \in Slots : UpdateAutoEmbedsPush(h, "up")
    \/ \E h \in Slots : Reply(h, "up")
    \/ /\ WeighinsBelow(4 * PeriodTournaments + WinnersWeighins + 1)
       /\ WeighinModal(1, "g1", "c1", "u1", "1")
    \/ \E h \in Slots : WeighinModalGetActive(h)
    \/ \E h \in Slots : WeighinModalGetLatestUpload(h)
    \/ \E h \in Slots : WeighinModalInsert(h)
    \/ /\ WeighinsBelow(4 * PeriodTournaments + WinnersWeighins + 1)
       /\ WeighinCommand(1, "g1", "u1", 2, "image")
    \/ \E h \in Slots : WeighinCommandGetActive(h)
    \/ \E h \in Slots : WeighinCommandInsert(h)
    \/ \E h \in Slots : ReviewPost(h, "up")
    \/ \E st \in {"approved", "rejected"} :
            ReviewButton("g1", 4 * PeriodTournaments + 1, st)

SpecWinners == InitWinners /\ [][NextWinners]_vars

\* either bot serving two guilds. Guild g2 has its config row, an ended
\* tournament with the approved weigh-in of u1 and its result, and a running
\* tournament with a weigh-in of u2; in the panel bot its channels are set
\* and no embed was sent yet. Guild g1 has nothing on record
InitIso ==
    /\ variant \in {"moderated", "panel"}
    /\ tieOrder \in TieOrders
    /\ now = 1
    /\ ticks = 0
    /\ config = [g \in Guilds |->
                    IF g = "g1" THEN NoConfig
                    ELSE IF variant = "moderated"
                    THEN [NoConfig EXCEPT !.review_channel_id = "c1",
                                          !.results_channel_id = "c2"]
                    ELSE [NoConfig EXCEPT !.panel_channel_id = "c2",
                                          !.bigbass_channel_id = "c2",
                                          !.top5_channel_id = "c2",
                                          !.results_channel_id = "c2"]]
    /\ tournaments = {[id |-> 1, guild_id |-> "g2", is_active |-> FALSE, ended_at |-> 1],
                      [id |-> 2, guild_id |-> "g2", is_active |-> TRUE, ended_at |-> NULL]}
    /\ nextTournamentId = 3
    /\ \E st \in {"pending", "approved"} :
            /\ variant = "panel" => st = "approved"
            /\ weighins =
                    {[id |-> 1, guild_id |-> "g2",
                      channel_id |-> IF variant = "panel" THEN "c2" ELSE NoChannel,
                      tournament_id |-> 1, user_id |-> "u1", weight_lbs |-> 2,
                      photo_url |-> 1, status |-> "approved"],
                     [id |-> 2, guild_id |-> "g2",
                      channel_id |-> IF variant = "panel" THEN "c2" ELSE NoChannel,
                      tournament_id |-> 2, user_id |-> "u2", weight_lbs |-> 1,
                      photo_url |-> 2, status |-> st]}
    /\ nextWeighinId = 3
    /\ uploads =
            IF variant = "panel"
            THEN {[id |-> w.id, guild_id |-> w.guild_id, channel_id |-> w.channel_id,
                   user_id |-> w.user_id, image_url |-> w.photo_url,
                   created_at |-> 1] : w \in weighins}
            ELSE {}
    /\ tournament_results \in SnapshotsOfLedger("g2", 1)
    /\ messages = IF variant = "moderated" THEN PostsOf(weighins) ELSE <<>>
    /\ handlers = [h \in Slots |-> Idle]
    /\ reply = NoReply

\* every interaction comes from guild g1: its channels are set, tournaments
\* are started and ended, photos uploaded, weigh-ins submitted, approved and
\* rejected through every review post of the guild, and its data reset;
\* one handler at a time, the chat surface up
NextIso ==
    \/ Setup("g1", "c1", "c2")
    \/ PanelCommand(1, "g1", "c1")
    \/ \E h \in Slots : PanelUpsert(h)
    \/ /\ config["g1"].panel_channel_id = "c1"
       /\ SetChannels(1, "g1", "c2", "c2", "c2", "c2")
    \/ \E h \in Slots : EnsureAllAutoEmbeds(h, "up")
    \/ \E h \in Slots : UpdateAutoEmbedsGetConfig(h)
    \/ \E h \in Slots : UpdateAutoEmbedsRead(h)
    \/ \E h \in Slots : UpdateAutoEmbedsPush(h, "up")
    \/ \E h \in Slots : Reply(h, "up")
    \/ /\ nextTournamentId <= 2 + IsoTournaments
       /\ StartTournament(1, "g1")
    \/ EndButton(1, "g1")
    \/ EndCommand(1, "g1")
    \/ \E h \in Slots : EndCommandGetConfig(h)
    \/ \E h \in Slots : EndTournament(h)
    \/ \E h \in Slots : SnapshotBig(h)
    \/ \E h \in Slots : SnapshotBag(h)
    \/ \E h \in Slots : SnapshotWrite(h)
    \/ \E h \in Slots : PostFinalStandings(h, "up")
    \/ /\ Cardinality(uploads) < 2 + IsoUploads
       /\ MessageCreate("g1", "c2", "u2")
    \/ /\ WeighinsBelow(3 + IsoWeighins)
       /\ WeighinModal(1, "g1", "c2", "u2", "1")
    \/ \E h \in Slots : WeighinModalGetActive(h)
    \/ \E h \in Slots : WeighinModalGetLatestUpload(h)
    \/ \E h \in Slots : WeighinModalInsert(h)
    \/ /\ WeighinsBelow(3 + IsoWeighins)
       /\ WeighinCommand(1, "g1", "u2", 2, "image")
    \/ \E h \in Slots : WeighinCommandGetActive(h)
    \/ \E h \in Slots : WeighinCommandInsert(h)
    \/ \E h \in Slots : ReviewPost(h, "up")
    \/ \E id \in 1..(2 + IsoWeighins), st \in {"approved", "rejected"} :
            ReviewButton("g1", id, st)
    \/ ResetTournamentData("g1")

SpecIso == InitIso /\ [][NextIso]_vars

\* the panel bot in guild g1 from an empty database: /panel and
\* set_channels_modal set the channels, tournaments are started and ended,
\* a weigh-in is submitted, and a member deletes messages the bot sent; one
\* handler at a time, the chat surface up
InitEmbeds == Init /\ variant = "panel"

NextEmbeds ==
    \/ PanelCommand(1, "g1", "c1")
    \/ \E h \in Slots : PanelUpsert(h)
    \/ /\ config["g1"].panel_channel_id # NoChannel
       /\ Len(messages) + 4 <= EmbedsMessages
       /\ \E c \in Channels : SetChannels(1, "g1", "c1", c, c, c)
    \/ \E h \in Slots : EnsureAllAutoEmbeds(h, "up")
    \/ \E h \in Slots : UpdateAutoEmbedsGetConfig(h)
    \/ \E h \in Slots : UpdateAutoEmbedsRead(h)
    \/ \E h \in Slots : UpdateAutoEmbedsPush(h, "up")
    \/ \E h \in Slots : Reply(h, "up")
    \/ /\ nextTournamentId <= EmbedsTournaments
       /\ StartTournament(1, "g1")
    \/ EndButton(1, "g1")
    \/ \E h \in Slots : EndTournament(h)
    \/ \E h \in Slots : SnapshotBig(h)
    \/ \E h \in Slots : SnapshotBag(h)
    \/ \E h \in Slots : SnapshotWrite(h)
    \/ \E h \in Slots : PostFinalStandings(h, "up")
    \/ /\ Cardinality(uploads) < EmbedsWeighins
       /\ MessageCreate("g1", "c1", "u1")
    \/ /\ WeighinsBelow(EmbedsWeighins + 1)
       /\ WeighinModal(1, "g1", "c1", "u1", "1")
    \/ \E h \in Slots : WeighinModalGetActive(h)
    \/ \E h \in Slots : WeighinModalGetLatestUpload(h)
    \/ \E h \in Slots : WeighinModalInsert(h)
    \/ /\ Cardinality({i \in 1..Len(messages) : messages[i].channel_id = NoChannel})
            < EmbedsDeletes
       /\ \E i \in 1..EmbedsMessages : DeleteMessage(i)

SpecEmbeds == InitEmbeds /\ [][NextEmbeds]_vars

\* both bots in guild g1 from an empty database with the chat surface
\* up, read-only (fetches are served, sends and edits are refused) or down at
\* each external call: the channels are set, tournaments are started and
\* ended, an angler submits a weigh-in; one handler at a time
NextFail ==
    \/ Setup("g1", "c1", "c1")
    \/ /\ config["g1"].panel_channel_id = NoChannel
       /\ PanelCommand(1, "g1", "c1")
    \/ \E h \in Slots : PanelUpsert(h)
    \/ \E h \in Slots, net \in Surface : EnsureAllAutoEmbeds(h, net)
    \/ \E h \in Slots : UpdateAutoEmbedsGetConfig(h)
    \/ \E h \in Slots : UpdateAutoEmbedsRead(h)
    \/ \E h \in Slots, net \in Surface : UpdateAutoEmbedsPush(h, net)
    \/ \E h \in Slots, net \in Surface : Reply(h, net)
    \/ /\ nextTournamentId <= FailTournaments
       /\ StartTournament(1, "g1")
    \/ EndButton(1, "g1")
    \/ EndCommand(1, "g1")
    \/ \E h \in Slots : EndCommandGetConfig(h)
    \/ \E h \in Slots : EndTournament(h)
    \/ \E h \in Slots : SnapshotBig(h)
    \/ \E h \in Slots : SnapshotBag(h)
    \/ \E h \in Slots : SnapshotWrite(h)
    \/ \E h \in Slots, net \in Surface : PostFinalStandings(h, net)
    \/ /\ Cardinality(uploads) < FailWeighins
       /\ MessageCreate("g1", "c1", "u1")
    \/ /\ WeighinsBelow(FailWeighins + 1)
       /\ WeighinModal(1, "g1", "c1", "u1", "1")
    \/ \E h \in Slots : WeighinModalGetActive(h)
    \/ \E h \in Slots : WeighinModalGetLatestUpload(h)
    \/ \E h \in Slots : WeighinModalInsert(h)
    \/ /\ WeighinsBelow(FailWeighins + 1)
       /\ WeighinCommand(1, "g1", "u1", 1, "image")
    \/ \E h \in Slots : WeighinCommandGetActive(h)
    \/ \E h \in Slots : WeighinCommandInsert(h)
    \/ \E h \in Slots, net \in Surface : ReviewPost(h, net)
    \/ \E i \in ReviewPosts("g1"), status \in {"approved", "rejected"} :
            ReviewButton("g1", messages[i].id, status)

SpecFail == Init /\ [][NextFail]_vars

\* the panel bot in guild g1, no channel set: an angler posts photos in a
\* channel and submits weigh-ins there, one after the other, while the clock
\* runs up to the recency window and past it
InitTwice == Init /\ variant = "panel"

NextTwice ==
    \/ /\ ticks < TwiceTicks
       /\ \E d \in Deltas : Tick(d)
    \/ /\ nextTournamentId <= 1
       /\ StartTournament(1, "g1")
    \/ /\ Cardinality(uploads) < TwiceUploads
       /\ \E u \in Users : MessageCreate("g1", "c1", u)
    \/ /\ WeighinsBelow(TwiceWeighins)
       /\ \E u \in Users : WeighinModal(1, "g1", "c1", u, "1")
    \/ \E h \in Slots : WeighinModalGetActive(h)
    \/ \E h \in Slots : WeighinModalGetLatestUpload(h)
    \/ \E h \in Slots : WeighinModalInsert(h)
    \/ \E h \in Slots : UpdateAutoEmbedsGetConfig(h)

SpecTwice == InitTwice /\ [][NextTwice]_vars

\* the panel bot in guild g1 from an empty database: /panel and
\* start_tournament_modal handlers run side by side, each statement of
\* ensureAllAutoEmbeds a step of its own, and a member deletes a message;
\* the chat surface up
InitRace == Init /\ variant = "panel"

NextRace ==
    \/ /\ config["g1"].panel_channel_id = NoChannel
       /\ \E h \in Slots : PanelCommand(h, "g1", "c1")
    \/ \E h \in Slots : PanelUpsert(h)
    \/ \E h \in Slots : EnsureAllGetConfig(h)
    \/ \E h \in Slots : EnsureAllSend(h, "up")
    \/ \E h \in Slots : EnsureAllUpsert(h)
    \/ \E h \in Slots : UpdateAutoEmbedsGetConfig(h)
    \/ \E h \in Slots : UpdateAutoEmbedsRead(h)
    \/ \E h \in Slots : UpdateAutoEmbedsPush(h, "up")
    \/ \E h \in Slots : Reply(h, "up")
    \/ /\ nextTournamentId <= RaceTournaments
       /\ \E h \in Slots : StartTournament(h, "g1")
    \/ /\ Cardinality({i \in 1..Len(messages) : messages[i].channel_id = NoChannel})
            < RaceDeletes
       /\ \E i \in 1..Len(messages) : DeleteMessage(i)

SpecRace == InitRace /\ [][NextRace]_vars

\* the anglers of specification SpecCap, in the order of their user ids
Anglers ==
    <<"a01", "a02", "a03", "a04", "a05", "a06", "a07", "a08", "a09", "a10",
      "a11", "a12", "a13", "a14", "a15", "a16", "a17", "a18", "a19", "a20",
      "a21", "a22", "a23", "a24", "a25", "a26">>

\* the pounds of the weigh-in of the i-th angler: the same for all, rising
\* or falling with the user id
CapWeights == {[i \in 1..CapAnglers |-> 1],
               [i \in 1..CapAnglers |-> i],
               [i \in 1..CapAnglers |-> CapAnglers + 1 - i]}

\* guild g1 with a running tournament in which as many anglers as the
\* leaderboards return, or one more, have one approved weigh-in each
InitCap ==
    /\ variant \in {"moderated", "panel"}
    /\ tieOrder \in {[i \in 1..CapAnglers |-> Anglers[i]],
                     [i \in 1..CapAnglers |-> Anglers[CapAnglers + 1 - i]]}
    /\ now = 1
    /\ ticks = 0
    /\ config = [g \in Guilds |->
                    IF g # "g1" \/ variant = "panel" THEN NoConfig
                    ELSE [NoConfig EXCEPT !.review_channel_id = "c1",
                                          !.results_channel_id = "c2"]]
    /\ tournaments = {[id |-> 1, guild_id |-> "g1", is_active |-> TRUE, ended_at |-> NULL]}
    /\ nextTournamentId = 2
    /\ \E n \in {Limit, CapAnglers}, ws \in CapWeights :
            /\ uploads =
                    IF variant = "panel"
                    THEN {[id |-> i, guild_id |-> "g1", channel_id |-> "c1",
                           user_id |-> Anglers[i], image_url |-> i, created_at |-> now] :
                            i \in 1..n}
                    ELSE {}
            /\ weighins =
                    {[id |-> i, guild_id |-> "g1",
                      channel_id |-> IF variant = "panel" THEN "c1" ELSE NoChannel,
                      tournament_id |-> 1, user_id |-> Anglers[i], weight_lbs |-> ws[i],
                      photo_url |-> i, status |-> "approved"] : i \in 1..n}
            /\ nextWeighinId = n + 1
    /\ tournament_results = {}
    /\ messages = IF variant = "moderated" THEN PostsOf(weighins) ELSE <<>>
    /\ handlers = [h \in Slots |-> Idle]
    /\ reply = NoReply

\* the tournament is ended, by the command or the button
NextCap ==
    \/ EndButton(1, "g1")
    \/ EndCommand(1, "g1")
    \/ \E h \in Slots : EndCommandGetConfig(h)
    \/ \E h \in Slots : EndTournament(h)
    \/ \E h \in Slots : SnapshotBig(h)
    \/ \E h \in Slots : SnapshotBag(h)
    \/ \E h \in Slots : SnapshotWrite(h)
    \/ \E h \in Slots : PostFinalStandings(h, "up")
    \/ \E h \in Slots : UpdateAutoEmbedsGetConfig(h)

SpecCap == InitCap /\ [][NextCap]_vars

\* ---------------------------------------------------------------- properties
\* C1: in every reachable state each guild has at most one active tournament
AtMostOneActive == \A g \in Guilds : Cardinality(ActiveRows(g)) <= 1

\* a tournament was started in a guild that had one before
C1_SecondStarted ==
    \E t1, t2 \in tournaments :
        /\ t1.guild_id = t2.guild_id
        /\ ~t1.is_active
        /\ t2.is_active

\* a step that runs startTournament: the only one to advance the id counter
IsStart == nextTournamentId' = nextTournamentId + 1

\* what the step that runs startTournament hands to the caller: the command
\* has replied, the modal has the id in hand and goes on to updateAutoEmbeds
Started ==
    IF variant = "moderated"
    THEN [kind |-> reply'.kind, guild_id |-> reply'.guild_id, id |-> reply'.id]
    ELSE LET h == CHOOSE k \in Slots : handlers'[k] # handlers[k]
         IN  [kind |-> handlers'[h].kind, guild_id |-> handlers'[h].guild_id,
              id |-> handlers'[h].written]

\* C2: starting a tournament first closes the active tournament of the guild,
\* stamping ended_at with the current time if it was NULL and keeping it
\* otherwise, then inserts the new active tournament; the id returned is the
\* id of the new row; every other row is unchanged
StartClosesActiveFirst ==
    [][IsStart =>
        LET started == Started
            g == started.guild_id
        IN  /\ started.kind = "start"
            /\ \A t \in tournaments :
                    IF t.guild_id = g /\ t.is_active
                    THEN [t EXCEPT !.is_active = FALSE,
                                   !.ended_at = IF t.ended_at = NULL THEN now
                                                ELSE t.ended_at] \in tournaments'
                    ELSE t \in tournaments'
            /\ \E n \in tournaments' :
                    /\ n.id = started.id
                    /\ n.id \notin {t.id : t \in tournaments}
                    /\ n.guild_id = g
                    /\ n.is_active
                    /\ n.ended_at = NULL
                    /\ {t \in tournaments' : t.guild_id = g /\ t.is_active} = {n}
            /\ Cardinality(tournaments') = Cardinality(tournaments) + 1]_vars

\* a start force-closed the active tournament: without a results channel the
\* moderated end_tournament closes nothing, so the start did
C2_ForceClosed ==
    /\ variant = "moderated"
    /\ reply.kind = "start"
    /\ config[reply.guild_id] = NoConfig
    /\ \E t1, t2 \in tournaments :
            /\ t1.guild_id = reply.guild_id /\ ~t1.is_active /\ t1.ended_at # NULL
            /\ t2.guild_id = reply.guild_id /\ t2.is_active /\ t2.id = reply.id

\* C3: a tournament that is not active never becomes active again, and a row
\* that appears is a new tournament under an id never used before
NeverReopened ==
    [][/\ \A t \in tournaments : \A n \in tournaments' :
                (n.id = t.id /\ ~t.is_active) => ~n.is_active
       /\ \A n \in tournaments' :
                n.id \notin {t.id : t \in tournaments} => n.id = nextTournamentId]_vars

\* a tournament was ended twice by racing handlers and is still closed
C3_ClosedStaysClosed ==
    \E t \in tournaments, h \in Slots :
        /\ ~t.is_active
        /\ reply.kind = "end" /\ reply.id = t.id
        /\ handlers[h].kind = "end" /\ handlers[h].active = t.id
        /\ handlers[h].pc = "snapshotBig"

\* C4: once ended_at of a tournament is set it never changes
EndedAtWrittenOnce ==
    [][\A t \in tournaments : \A n \in tournaments' :
            (n.id = t.id /\ t.ended_at # NULL) => n.ended_at = t.ended_at]_vars

\* C5: an end-tournament handler that finds no active tournament in its guild
\* replies NotFound and returns, and no row of any table changes
EndWithoutActiveFails ==
    [][\A h \in Slots, g \in Guilds :
            ((EndButton(h, g) \/ EndCommand(h, g)) /\ ActiveRows(g) = {}) =>
                /\ reply'.kind = "end"
                /\ reply'.guild_id = g
                /\ reply'.ret = "NotFound"
                /\ handlers'[h] = Idle
                /\ UNCHANGED tables]_vars

\* end-tournament replied NotFound in a guild whose tournament was closed
C5_EndRefused ==
    /\ reply.kind = "end"
    /\ reply.ret = "NotFound"
    /\ ActiveRows(reply.guild_id) = {}
    /\ \E t \in tournaments : t.guild_id = reply.guild_id

\* C7: a weigh-in row is written under a tournament of its guild that is
\* active when the row is written
WeighinOnActiveTournament ==
    [][\A w \in weighins' \ weighins :
            \E t \in tournaments :
                /\ t.id = w.tournament_id
                /\ t.guild_id = w.guild_id
                /\ t.is_active]_vars

\* the handler in slot h replies ret and returns, and no row changes
Fails(h, ret) ==
    /\ reply'.kind = "weighin"
    /\ reply'.ret = ret
    /\ handlers'[h] = Idle
    /\ UNCHANGED tables

\* weight texts that are no number, and numbers that are not above 0
NonNumeric == {"abc"}
NonPositive == {"-1", "0"}

\* uploads of exactly the guild, channel and angler of a handler
UploadsOf(rec) ==
    {u \in uploads : /\ u.guild_id = rec.guild_id
                     /\ u.channel_id = rec.channel_id
                     /\ u.user_id = rec.user_id}

\* C6: a weigh-in that passed the routing check of its handler fails with
\* NotFound when the guild has no active tournament, with InvalidInput when
\* the weight is no number or not above 0, and with MissingEvidence when no
\* upload of the angler in the channel lies in the recency window (panel) or
\* the attachment is no image (moderated); a failed weigh-in writes no row
WeighinFailures ==
    [][\A h \in Slots :
        /\ WeighinModalGetActive(h) =>
            LET rec == handlers[h]
            IN  (rec.panel = NoChannel \/ rec.channel_id = rec.panel) =>
                    /\ ActiveRows(rec.guild_id) = {} => Fails(h, "NotFound")
                    /\ (/\ ActiveRows(rec.guild_id) # {}
                        /\ rec.raw \in NonNumeric \cup NonPositive)
                            => Fails(h, "InvalidInput")
        /\ WeighinModalGetLatestUpload(h) =>
            ((\A u \in UploadsOf(handlers[h]) : now - u.created_at > maxMinutes)
                => Fails(h, "MissingEvidence"))
        /\ WeighinCommandGetActive(h) =>
            LET rec == handlers[h]
            IN  /\ ActiveRows(rec.guild_id) = {} => Fails(h, "NotFound")
                /\ (ActiveRows(rec.guild_id) # {} /\ rec.content_type # "image")
                        => Fails(h, "MissingEvidence")
        /\ (/\ handlers[h].kind = "weighin"
            /\ handlers'[h] = Idle
            /\ reply'.ret # "ok")
                => weighins' = weighins]_vars

\* a weigh-in was refused for its weight alone: the tournament is active and
\* a recent upload of the angler is there
C6_WeightRefused ==
    /\ reply.kind = "weighin"
    /\ reply.ret = "InvalidInput"
    /\ ActiveRows(reply.guild_id) # {}
    /\ \E u \in UploadsOf(reply) : u.created_at <= reply.at
    /\ weighins = {}

\* C8: an upload older than the recency window is never resolved: a weigh-in
\* whose uploads of the guild, channel and angler are all older than the
\* window fails with MissingEvidence and writes no row, and the photo a
\* weigh-in takes is one of an upload inside the window
StaleUploadNeverResolved ==
    [][\A h \in Slots :
        WeighinModalGetLatestUpload(h) =>
            LET mine == UploadsOf(handlers[h])
            IN  /\ (mine # {} /\ \A u \in mine : now - u.created_at > maxMinutes)
                    => Fails(h, "MissingEvidence")
                /\ handlers'[h].pc = "modalInsert" =>
                        \E u \in mine : /\ u.image_url = handlers'[h].photo
                                         /\ now - u.created_at <= maxMinutes]_vars

\* a weigh-in failed on an upload that was there and had left the window
C8_UploadExpired ==
    /\ reply.kind = "weighin"
    /\ reply.ret = "MissingEvidence"
    /\ \E u \in UploadsOf(reply) : u.created_at <= reply.at
    /\ \A u \in UploadsOf(reply) :
            u.created_at <= reply.at => reply.at - u.created_at > maxMinutes

\* C9: the upload resolved for a guild, channel and angler is the one with
\* the latest created_at among their uploads inside the window, the highest
\* id among those of that created_at, and none when there is no such upload
LatestUploadHighestId ==
    \A g \in Guilds, c \in Channels, a \in Users :
        LET R == {u \in uploads : /\ u.guild_id = g
                                  /\ u.channel_id = c
                                  /\ u.user_id = a
                                  /\ u.created_at >= now - maxMinutes}
        IN  getLatestUpload(g, c, a) =
                IF R = {} THEN {NULL}
                ELSE {(CHOOSE x \in R : \A y \in R :
                            \/ y.created_at < x.created_at
                            \/ y.created_at = x.created_at /\ y.id <= x.id).id}

\* C10: in every tournament the big bass value of an angler is the heaviest
\* of the angler's approved weigh-ins in that tournament, and an angler
\* with no approved weigh-in there is in neither leaderboard
BigBassIsHeaviestApproved ==
    \A t \in tournaments :
        \A big \in getBigBassLeaderboard(weighins, t.guild_id, t.id),
           bag \in getTotalBagLeaderboard(weighins, t.guild_id, t.id) :
            LET mine(a) == {w \in weighins : /\ w.guild_id = t.guild_id
                                            /\ w.tournament_id = t.id
                                            /\ w.user_id = a
                                            /\ w.status = "approved"}
                anglers == {a \in Users : mine(a) # {}}
            IN  \A a \in Users :
                    /\ mine(a) = {} => a \notin SeqUsers(big) /\ a \notin SeqUsers(bag)
                    /\ \A i \in 1..Len(big) :
                            big[i].user_id = a =>
                                /\ \E w \in mine(a) : w.weight_lbs = big[i].big_bass
                                /\ \A w \in mine(a) : w.weight_lbs <= big[i].big_bass
                                /\ \A j \in 1..Len(big) : big[j].user_id = a => j = i
                    /\ (mine(a) # {} /\ Cardinality(anglers) <= Limit)
                            => a \in SeqUsers(big)

\* /bigbass showed an angler under the heavier of two approved weigh-ins while
\* the other angler's only weigh-in of the tournament is not approved
C10_Ranked ==
    /\ reply.kind = "bigbass"
    /\ Len(reply.rows) = 1
    /\ \E w1, w2, w3 \in weighins :
            /\ w1.tournament_id = reply.id /\ w2.tournament_id = reply.id
            /\ w3.tournament_id = reply.id
            /\ w1.user_id = reply.rows[1].user_id /\ w2.user_id = w1.user_id
            /\ w3.user_id # w1.user_id
            /\ w1.status = "approved" /\ w2.status = "approved"
            /\ w3.status # "approved"
            /\ w1.weight_lbs < w2.weight_lbs
            /\ reply.rows[1].big_bass = w2.weight_lbs

\* C11: in the total bag leaderboard of a tournament the total of an angler is
\* the sum of the angler's 5 heaviest approved weigh-ins of the tournament,
\* of all of them when there are fewer than 5, and fish_count is the
\* smaller of 5 and the number of the angler's approved weigh-ins
TotalBagIsTopFive ==
    \A t \in tournaments :
        \A bag \in getTotalBagLeaderboard(weighins, t.guild_id, t.id) :
            \A i \in 1..Len(bag) :
                LET mine == {w \in weighins : /\ w.guild_id = t.guild_id
                                              /\ w.tournament_id = t.id
                                              /\ w.user_id = bag[i].user_id
                                              /\ w.status = "approved"}
                IN  /\ bag[i].fish_count = Min(Cardinality(mine), 5)
                    /\ \E S \in SUBSET mine :
                            /\ Cardinality(S) = bag[i].fish_count
                            /\ \A x \in S, y \in mine \ S : x.weight_lbs >= y.weight_lbs
                            /\ bag[i].total_bag = SumWeights(S)

\* /totalbag showed an angler with six approved weigh-ins of 5, 6, 3, 1, 2
\* and 4 pounds under a total of 20 pounds of 5 fish
C11_SixWeighins ==
    /\ reply.kind = "totalbag"
    /\ \E i \in 1..Len(reply.rows) :
            /\ reply.rows[i].total_bag = 20
            /\ reply.rows[i].fish_count = 5
            /\ {w.weight_lbs : w \in {x \in weighins :
                    /\ x.user_id = reply.rows[i].user_id
                    /\ x.tournament_id = reply.id
                    /\ x.status = "approved"}} = 1..6

\* angler identifiers in ascending order
UserBefore(a, b) == a = "u1" /\ b = "u2"

\* C12: both leaderboards of a tournament are ordered by score descending
\* and anglers of equal score come by user_id ascending
TiesByUserIdAscending ==
    \A t \in tournaments :
        /\ \A big \in getBigBassLeaderboard(weighins, t.guild_id, t.id) :
                \A i, j \in 1..Len(big) :
                    i < j => \/ big[i].big_bass > big[j].big_bass
                             \/ /\ big[i].big_bass = big[j].big_bass
                                /\ UserBefore(big[i].user_id, big[j].user_id)
        /\ \A bag \in getTotalBagLeaderboard(weighins, t.guild_id, t.id) :
                \A i, j \in 1..Len(bag) :
                    i < j => \/ bag[i].total_bag > bag[j].total_bag
                             \/ /\ bag[i].total_bag = bag[j].total_bag
                                /\ UserBefore(bag[i].user_id, bag[j].user_id)

\* the weigh-in rows a step adds, removes or rewrites
ChangedRows == (weighins' \ weighins) \cup (weighins \ weighins')

\* C13: a step whose added or rewritten weigh-in rows all are of another
\* tournament, of another guild, or not approved leaves both leaderboards
\* of the tournament unchanged
LeaderboardsReadOwnApprovedRows ==
    [][\A t \in tournaments :
            (\A w \in ChangedRows : \/ w.guild_id # t.guild_id
                                    \/ w.tournament_id # t.id
                                    \/ w.status # "approved")
            => /\ getBigBassLeaderboard(weighins', t.guild_id, t.id)
                    = getBigBassLeaderboard(weighins, t.guild_id, t.id)
               /\ getTotalBagLeaderboard(weighins', t.guild_id, t.id)
                    = getTotalBagLeaderboard(weighins, t.guild_id, t.id)]_vars

\* /bigbass of a tournament of guild g1 showed one angler alone while a later
\* weigh-in of the other angler, in another tournament, is approved
C13_OtherTournamentApproved ==
    /\ reply.kind = "bigbass"
    /\ Len(reply.rows) = 1
    /\ \E w1, w2 \in weighins :
            /\ w1.tournament_id = reply.id
            /\ w1.user_id = reply.rows[1].user_id
            /\ w1.status = "approved"
            /\ w2.tournament_id # w1.tournament_id
            /\ w2.user_id # w1.user_id
            /\ w2.id > w1.id
            /\ w2.status = "approved"
            /\ getBigBassLeaderboard(weighins, reply.guild_id, reply.id) = {reply.rows}

\* the rows of a tournament in a results table
ResultsOf(R, tournamentId) == {r \in R : r.tournament_id = tournamentId}

\* rows without the time they were first written
WithoutCreatedAt(R) == {[r EXCEPT !.created_at = NULL] : r \in R}

\* the results of the tournament of handler h are those of a snapshot of
\* the ledger as it stands, and h has read its two leaderboards from it
SnapshotTaken(h) ==
    LET rec == handlers[h]
    IN  /\ rec.big \in getBigBassLeaderboard(weighins, rec.guild_id, rec.active)
        /\ rec.bag \in getTotalBagLeaderboard(weighins, rec.guild_id, rec.active)
        /\ WithoutCreatedAt(ResultsOf(tournament_results, rec.active))
                \in {WithoutCreatedAt(S) : S \in SnapshotsOfLedger(rec.guild_id, rec.active)}

\* C14: a snapshot of a tournament whose results already are those of a
\* snapshot of the same ledger leaves the results table as it is: no row
\* added, no value changed
SnapshotIdempotent ==
    [][\A h \in Slots :
            (SnapshotWrite(h) /\ SnapshotTaken(h))
                => tournament_results' = tournament_results]_vars

\* an end_tournament handler finished its snapshot of a tournament whose two
\* result rows had been written earlier by another handler, from the same
\* ledger
C14_SnapshotRepeated ==
    /\ reply.kind = "end"
    /\ reply.ret = "ok"
    /\ Cardinality(ResultsOf(tournament_results, reply.id)) = 2
    /\ \A r \in ResultsOf(tournament_results, reply.id) : r.created_at < reply.at
    /\ WithoutCreatedAt(ResultsOf(tournament_results, reply.id))
            \in {WithoutCreatedAt(S) : S \in SnapshotsOfLedger(reply.guild_id, reply.id)}

\* C15: the snapshot of a tournament leaves in the results table exactly one
\* row for each angler of the big bass or the total bag leaderboard it read,
\* holding the angler's big_bass (0 if not in the big bass leaderboard),
\* total_bag and fish_count (0 if not in the total bag leaderboard), and
\* touches the row of no other angler and of no other tournament
SnapshotWritesLeaderboardAnglers ==
    [][\A h \in Slots :
            SnapshotWrite(h) =>
                LET rec == handlers[h]
                    inBig(u) == \E i \in 1..Len(rec.big) : rec.big[i].user_id = u
                    inBag(u) == \E i \in 1..Len(rec.bag) : rec.bag[i].user_id = u
                    before(u) == {r \in tournament_results :
                                    r.tournament_id = rec.active /\ r.user_id = u}
                    after(u) == {r \in tournament_results' :
                                    r.tournament_id = rec.active /\ r.user_id = u}
                IN  /\ \A u \in Users :
                            IF inBig(u) \/ inBag(u)
                            THEN /\ Cardinality(after(u)) = 1
                                 /\ \A r \in after(u) :
                                        /\ \A i \in 1..Len(rec.big) :
                                                rec.big[i].user_id = u
                                                    => r.big_bass = rec.big[i].big_bass
                                        /\ ~inBig(u) => r.big_bass = 0
                                        /\ \A i \in 1..Len(rec.bag) :
                                                rec.bag[i].user_id = u
                                                    => /\ r.total_bag = rec.bag[i].total_bag
                                                       /\ r.fish_count = rec.bag[i].fish_count
                                        /\ ~inBag(u) => r.total_bag = 0 /\ r.fish_count = 0
                            ELSE after(u) = before(u)
                    /\ {r \in tournament_results' : r.tournament_id # rec.active}
                            = {r \in tournament_results : r.tournament_id # rec.active}]_vars

\* an end_tournament handler finished a snapshot that holds one angler who
\* was in both leaderboards and one who was approved after the big bass
\* leaderboard was read: big_bass 0 beside a total bag of one fish
C15_AbsentFromBigBass ==
    /\ reply.kind = "end"
    /\ reply.ret = "ok"
    /\ \E r1, r2 \in ResultsOf(tournament_results, reply.id) :
            /\ r1.user_id # r2.user_id
            /\ r1.big_bass > 0 /\ r1.total_bag > 0
            /\ r2.big_bass = 0 /\ r2.total_bag > 0 /\ r2.fish_count = 1

\* C16: every row of tournament_results refers to a tournament that is on
\* record, not active and has ended_at set
ResultsOnlyOfEndedTournaments ==
    \A r \in tournament_results :
        \E t \in tournaments :
            /\ t.id = r.tournament_id
            /\ ~t.is_active
            /\ t.ended_at # NULL

\* C17: in every reachable state tournament_results holds at most one row
\* for a tournament and an angler
OneResultPerTournamentAndUser ==
    \A r1, r2 \in tournament_results :
        (r1.tournament_id = r2.tournament_id /\ r1.user_id = r2.user_id) => r1 = r2

\* an end_tournament handler finished its snapshot at a later time than the
\* only result row of the tournament was created, and the row holds what
\* the big bass leaderboard gives now: the row was written again
C17_RowWrittenAgain ==
    /\ reply.kind = "end"
    /\ reply.ret = "ok"
    /\ \E r \in tournament_results :
            /\ ResultsOf(tournament_results, reply.id) = {r}
            /\ r.created_at < reply.at
            /\ \E big \in getBigBassLeaderboard(weighins, reply.guild_id, reply.id) :
                    \E i \in 1..Len(big) :
                        big[i].user_id = r.user_id /\ big[i].big_bass = r.big_bass

\* the tournament of handler h has no weigh-in
NoWeighins(h) == \A w \in weighins : w.tournament_id # handlers[h].active

\* C18: ending a tournament that has no weigh-in closes it, both
\* leaderboards of the snapshot are empty, the snapshot writes no row and
\* the handler goes on to the final standings, and with the chat surface
\* up it replies with success
EndWithoutWeighins ==
    [][\A h \in Slots :
            /\ (EndTournament(h) /\ NoWeighins(h))
                    => \A t \in tournaments' :
                            t.id = handlers[h].active => ~t.is_active /\ t.ended_at = now
            /\ (SnapshotBig(h) /\ NoWeighins(h)) => handlers'[h].big = <<>>
            /\ (SnapshotBag(h) /\ NoWeighins(h)) => handlers'[h].bag = <<>>
            /\ (SnapshotWrite(h) /\ handlers[h].big = <<>> /\ handlers[h].bag = <<>>)
                    => /\ tournament_results' = tournament_results
                       /\ handlers'[h].pc = "postFinalStandings"
            /\ (/\ handlers[h].kind = "end"
                /\ handlers[h].written # NULL
                /\ handlers'[h] = Idle)
                    => /\ reply'.kind = "end"
                       /\ reply'.ret = "ok"
                       /\ reply'.id = handlers[h].active]_vars

\* an end_tournament handler finished on a database no weigh-in was ever
\* written to: the tournament is closed and there is no result row
C18_EndedEmpty ==
    /\ reply.kind = "end"
    /\ reply.ret = "ok"
    /\ nextWeighinId = 1
    /\ \E t \in tournaments : t.id = reply.id /\ ~t.is_active /\ t.ended_at # NULL
    /\ tournament_results = {}

\* the months and years a leaderboard is asked for
AskedMonths == {1, 2, MonthsPerYear + 1}
AskedYears == {1, 2}

\* the result rows of an angler in a guild whose tournament is on record
\* with ended_at set and within the period
ResultsInPeriod(guildId, userId, format, period) ==
    {r \in tournament_results :
        /\ r.guild_id = guildId
        /\ r.user_id = userId
        /\ \E t \in tournaments : /\ t.id = r.tournament_id
                                   /\ t.ended_at # NULL
                                   /\ strftime(format, t.ended_at) = period}

\* C19: the month and the year leaderboard of a guild list exactly the
\* anglers who have a result row of a tournament of the guild that was ended
\* within the period, and count only such tournaments; a tournament that is
\* still running adds no angler and no tournament, whatever its weigh-ins
PeriodCountsEndedTournamentsOnly ==
    \A g \in Guilds :
        /\ \A m \in AskedMonths : \A rows \in getMonthLeaderboard(g, m) :
                /\ \A i \in 1..Len(rows) :
                        /\ ResultsInPeriod(g, rows[i].user_id, "%Y-%m", m) # {}
                        /\ rows[i].tournaments_count =
                                Cardinality({r.tournament_id :
                                    r \in ResultsInPeriod(g, rows[i].user_id, "%Y-%m", m)})
                /\ \A u \in Users :
                        ResultsInPeriod(g, u, "%Y-%m", m) # {}
                            => \E i \in 1..Len(rows) : rows[i].user_id = u
        /\ \A y \in AskedYears : \A rows \in getYearLeaderboard(g, y) :
                /\ \A i \in 1..Len(rows) :
                        /\ ResultsInPeriod(g, rows[i].user_id, "%Y", y) # {}
                        /\ rows[i].tournaments_count =
                                Cardinality({r.tournament_id :
                                    r \in ResultsInPeriod(g, rows[i].user_id, "%Y", y)})
                /\ \A u \in Users :
                        ResultsInPeriod(g, u, "%Y", y) # {}
                            => \E i \in 1..Len(rows) : rows[i].user_id = u

\* /month_leaderboard showed one angler with one tournament while the other
\* angler has a result of a tournament ended in another month and an
\* approved weigh-in in the running tournament
C19_OtherMonthAndRunning ==
    /\ reply.kind = "month_leaderboard"
    /\ reply.ret = "ok"
    /\ Len(reply.rows) = 1
    /\ reply.rows[1].tournaments_count = 1
    /\ \E r \in tournament_results, t \in tournaments, w \in weighins, a \in tournaments :
            /\ r.guild_id = reply.guild_id
            /\ r.user_id # reply.rows[1].user_id
            /\ t.id = r.tournament_id
            /\ strftime("%Y-%m", t.ended_at) # reply.id
            /\ a.is_active /\ a.guild_id = reply.guild_id
            /\ w.tournament_id = a.id /\ w.status = "approved"
            /\ w.user_id = r.user_id

\* C20: each row of the month and of the year leaderboard of a guild holds
\* the sum of total_bag, the greatest big_bass and the number of distinct
\* tournaments over the angler's result rows of tournaments ended in the
\* period, each angler has one row, and the rows come by total descending
\* and, for equal totals, by big bass descending
PeriodSumsAndOrder ==
    \A g \in Guilds :
        /\ \A m \in AskedMonths : \A rows \in getMonthLeaderboard(g, m) :
                /\ \A i \in 1..Len(rows) :
                        LET mine == ResultsInPeriod(g, rows[i].user_id, "%Y-%m", m)
                        IN  /\ rows[i].month_total_bag = SumTotalBag(mine)
                            /\ \E r \in mine : r.big_bass = rows[i].month_big_bass
                            /\ \A r \in mine : r.big_bass <= rows[i].month_big_bass
                            /\ rows[i].tournaments_count =
                                    Cardinality({r.tournament_id : r \in mine})
                /\ \A i, j \in 1..Len(rows) :
                        i < j => /\ rows[i].user_id # rows[j].user_id
                                 /\ \/ rows[i].month_total_bag > rows[j].month_total_bag
                                    \/ /\ rows[i].month_total_bag = rows[j].month_total_bag
                                       /\ rows[i].month_big_bass >= rows[j].month_big_bass
        /\ \A y \in AskedYears : \A rows \in getYearLeaderboard(g, y) :
                /\ \A i \in 1..Len(rows) :
                        LET mine == ResultsInPeriod(g, rows[i].user_id, "%Y", y)
                        IN  /\ rows[i].year_total_bag = SumTotalBag(mine)
                            /\ \E r \in mine : r.big_bass = rows[i].year_big_bass
                            /\ \A r \in mine : r.big_bass <= rows[i].year_big_bass
                            /\ rows[i].tournaments_count =
                                    Cardinality({r.tournament_id : r \in mine})
                /\ \A i, j \in 1..Len(rows) :
                        i < j => /\ rows[i].user_id # rows[j].user_id
                                 /\ \/ rows[i].year_total_bag > rows[j].year_total_bag
                                    \/ /\ rows[i].year_total_bag = rows[j].year_total_bag
                                       /\ rows[i].year_big_bass >= rows[j].year_big_bass

\* /year_leaderboard showed two anglers of equal total, the first with the
\* greater big bass from one tournament, the second with the sum of two
\* tournaments
C20_EqualTotals ==
    /\ reply.kind = "year_leaderboard"
    /\ Len(reply.rows) = 2
    /\ reply.rows[1].year_total_bag = reply.rows[2].year_total_bag
    /\ reply.rows[1].year_big_bass > reply.rows[2].year_big_bass
    /\ reply.rows[1].tournaments_count = 1
    /\ reply.rows[2].tournaments_count = 2

\* the anglers of a guild with a result row of a tournament ended in the period
AnglersInPeriod(guildId, format, period) ==
    {u \in Users : ResultsInPeriod(guildId, u, format, period) # {}}

\* w names the angler of the greatest summed total bag with that sum, and
\* the angler of the greatest big bass with that weight; it names nobody
\* when no angler has a result in the period
WinnersOfPeriod(w, guildId, format, period) ==
    LET A == AnglersInPeriod(guildId, format, period)
        total(u) == SumTotalBag(ResultsInPeriod(guildId, u, format, period))
        bigs(u) == {r.big_bass : r \in ResultsInPeriod(guildId, u, format, period)}
    IN  IF A = {} THEN w = NoWinners
        ELSE /\ w.bag_winner_id \in A
             /\ w.bag_winner_bag = total(w.bag_winner_id)
             /\ \A u \in A : total(u) <= w.bag_winner_bag
             /\ w.big_winner_id \in A
             /\ w.big_winner_big \in bigs(w.big_winner_id)
             /\ \A u \in A : \A b \in bigs(u) : b <= w.big_winner_big

\* C21: the winners of a month and of a year of a guild are the angler with
\* the greatest summed total bag over the tournaments ended in the period,
\* reported with that sum, and the angler with the greatest big bass of the
\* period, reported with that weight; both are absent when no tournament of
\* the guild with results was ended in the period
WinnersAreTopAnglers ==
    \A g \in Guilds :
        /\ \A m \in AskedMonths : \A w \in getMonthSummaryWinners(g, m) :
                WinnersOfPeriod(w, g, "%Y-%m", m)
        /\ \A y \in AskedYears : \A w \in getYearSummaryWinners(g, y) :
                WinnersOfPeriod(w, g, "%Y", y)

\* updateAutoEmbeds read no winners of the month and, for the year, one
\* angler as the winner by total bag and the other as the winner by big bass
C21_DifferentWinners ==
    \E h \in Slots :
        /\ handlers[h].pc = "updatePush"
        /\ handlers[h].monthW[1] = NoWinners
        /\ handlers[h].yearW[1].bag_winner_id # NoUser
        /\ handlers[h].yearW[1].big_winner_id # NoUser
        /\ handlers[h].yearW[1].bag_winner_id # handlers[h].yearW[1].big_winner_id

\* every month and year leaderboard and every month and year winner of a guild
PeriodStandingsOf(guildId) ==
    [month |-> [m \in AskedMonths |-> getMonthLeaderboard(guildId, m)],
     year |-> [y \in AskedYears |-> getYearLeaderboard(guildId, y)],
     monthW |-> [m \in AskedMonths |-> getMonthSummaryWinners(guildId, m)],
     yearW |-> [y \in AskedYears |-> getYearSummaryWinners(guildId, y)]]

\* the same of every guild
PeriodStandings == [g \in Guilds |-> PeriodStandingsOf(g)]

\* C22: a step that writes a weigh-in or changes the status of one and
\* leaves the tournament_results and tournaments rows as they are leaves
\* every month and year leaderboard and every month and year winner as it is
WeighinsLeavePeriodStandings ==
    [][(/\ weighins' # weighins
        /\ tournament_results' = tournament_results
        /\ tournaments' = tournaments)
            => PeriodStandings' = PeriodStandings]_vars

\* an angler with results in the current year has a weigh-in in the running
\* tournament that was submitted and then approved, and the tournament
\* has no result rows
C22_ApprovedInRunning ==
    \E w \in weighins, t \in tournaments :
        /\ variant = "moderated"
        /\ w.id >= 4 * PeriodTournaments + 1
        /\ w.status = "approved"
        /\ t.id = w.tournament_id /\ t.is_active
        /\ ~\E r \in tournament_results : r.tournament_id = t.id
        /\ ResultsInPeriod(w.guild_id, w.user_id, "%Y", strftime("%Y", now)) # {}

\* a start_tournament or end_tournament handler of the guild returns in this
\* step with its success reply
ClosingHandlerReturns(guildId) ==
    /\ reply'.kind \in {"start", "end"}
    /\ reply'.ret = "ok"
    /\ reply'.guild_id = guildId
    /\ \/ variant = "moderated" /\ IsStart
       \/ \E h \in Slots : /\ handlers[h].kind \in {"start", "end"}
                            /\ handlers'[h] = Idle

\* C23: once the handler that closed a tournament has returned, be it an
\* end_tournament or a start_tournament that closed the tournament running
\* before, every angler with an approved weigh-in in the tournament has a
\* tournament_results row of it
ClosedTournamentsHaveResults ==
    [][\A g \in Guilds :
        ClosingHandlerReturns(g) =>
            \A t \in tournaments' :
                (/\ t.guild_id = g
                 /\ ~t.is_active
                 /\ ~\E h \in Slots : /\ handlers'[h].kind \in {"start", "end"}
                                       /\ handlers'[h].guild_id = g)
                    => \A w \in weighins' :
                            (/\ w.guild_id = g
                             /\ w.tournament_id = t.id
                             /\ w.status = "approved")
                                => \E r \in tournament_results' :
                                        /\ r.tournament_id = t.id
                                        /\ r.user_id = w.user_id]_vars

\* C25: in the moderated bot the status of a weigh-in changes only from
\* pending, to approved or to rejected: an approved weigh-in is never
\* rejected and a rejected one never approved
StatusLeavesPendingOnly ==
    [][variant = "moderated" =>
        \A w \in weighins, v \in weighins' :
            (v.id = w.id /\ v.status # w.status)
                => /\ w.status = "pending"
                   /\ v.status \in {"approved", "rejected"}]_vars

\* C26: a step that sets the status of a weigh-in changes that row alone,
\* and only its status, and setting the same status on the same weigh-in
\* once more leaves the table as it is
SetStatusIdempotent ==
    [][\A w \in weighins, v \in weighins' :
        (v.id = w.id /\ v.status # w.status)
            => /\ weighins' = (weighins \ {w}) \cup {[w EXCEPT !.status = v.status]}
               /\ setWeighInStatus(weighins', v.id, v.status) = weighins'
               /\ setWeighInStatus(weighins, v.id, v.status) = weighins']_vars

\* of two weigh-ins on record the first was rejected and the second
\* approved, and a third is pending
C26_StatusSetAmongOthers ==
    \E a, b, c \in weighins :
        /\ a.id < b.id /\ b.id < c.id
        /\ a.status = "rejected"
        /\ b.status = "approved"
        /\ c.status = "pending"

\* the rows of a guild in every table, and the messages sent to it
RowsOf(guildId) ==
    [config |-> config[guildId],
     tournaments |-> {t \in tournaments : t.guild_id = guildId},
     uploads |-> {u \in uploads : u.guild_id = guildId},
     weighins |-> {w \in weighins : w.guild_id = guildId},
     tournament_results |-> {r \in tournament_results : r.guild_id = guildId},
     messages |-> {<<i, messages[i]>> : i \in {j \in 1..Len(messages) :
                                                messages[j].guild_id = guildId}}]

\* both leaderboards of every tournament as a guild would be shown them, and
\* its period leaderboards and winners
StandingsOf(guildId) ==
    [big |-> [t \in 1..(2 + IsoTournaments) |->
                    getBigBassLeaderboard(weighins, guildId, t)],
     bag |-> [t \in 1..(2 + IsoTournaments) |->
                    getTotalBagLeaderboard(weighins, guildId, t)],
     period |-> PeriodStandingsOf(guildId)]

\* C24: while every interaction comes from guild g1, no step changes a
\* config, tournaments, uploads, weighins or tournament_results row of guild
\* g2 or a message sent to it, and every leaderboard, period leaderboard
\* and period winner of guild g2 stays as it is
OtherGuildUntouched ==
    [][/\ RowsOf("g2")' = RowsOf("g2")
       /\ StandingsOf("g2")' = StandingsOf("g2")]_vars

\* guild g1 has its channels set, a tournament ended with a result row, a
\* tournament running and a weigh-in rejected, and guild g2 has its rows
C24_OtherGuildBusy ==
    /\ variant = "moderated"
    /\ config["g1"] # NoConfig
    /\ \E r \in tournament_results : r.guild_id = "g1"
    /\ \E t \in tournaments : t.guild_id = "g1" /\ t.is_active
    /\ \E w \in weighins : w.guild_id = "g1" /\ w.status = "rejected"
    /\ \E t \in tournaments : t.guild_id = "g2" /\ t.is_active
    /\ \E r \in tournament_results : r.guild_id = "g2"

\* the four auto-updating embeds, the channel each is kept in and the
\* message id stored for it in a config row
Docs == {"cur_bigbass", "cur_top5", "monthly_winners", "yearly_winners"}

DocChannel(cfg, d) ==
    CASE d = "cur_bigbass" -> cfg.bigbass_channel_id
      [] d = "cur_top5" -> cfg.top5_channel_id
      [] d = "monthly_winners" -> cfg.results_channel_id
      [] d = "yearly_winners" -> cfg.results_channel_id

DocHandle(cfg, d) ==
    CASE d = "cur_bigbass" -> cfg.cur_bigbass_msg_id
      [] d = "cur_top5" -> cfg.cur_top5_msg_id
      [] d = "monthly_winners" -> cfg.monthly_winners_msg_id
      [] d = "yearly_winners" -> cfg.yearly_winners_msg_id

\* C27: a pass of ensureAllAutoEmbeds over a guild whose channels are set
\* sends no message for an embed whose stored message id resolves and
\* leaves that id as it is; for an embed whose stored id is missing or does
\* not resolve it sends exactly one message and stores its id; after the
\* pass ensureMessage finds every embed and would send nothing
EnsureRepairsOnce ==
    [][\A h \in Slots :
        (/\ handlers[h].pc \in {"ensureAll", "ensureFirst"}
         /\ handlers'[h] # handlers[h]
         /\ ~ChannelsMissing(config[handlers[h].guild_id]))
            => LET g == handlers[h].guild_id
                   old == config[g]
                   new == config'[g]
                   stale == {d \in Docs :
                                ~Resolves(messages, g, DocChannel(old, d), DocHandle(old, d))}
               IN  /\ Len(messages') = Len(messages) + Cardinality(stale)
                   /\ \A i \in 1..Len(messages) : messages'[i] = messages[i]
                   /\ \A d \in Docs \ stale : DocHandle(new, d) = DocHandle(old, d)
                   /\ \A d \in stale :
                            /\ DocHandle(new, d) \in (Len(messages) + 1)..Len(messages')
                            /\ \A e \in stale \ {d} : DocHandle(new, e) # DocHandle(new, d)
                   /\ \A d \in Docs :
                            /\ DocChannel(new, d) = DocChannel(old, d)
                            /\ ensureMessage(messages', "up", g, DocChannel(new, d),
                                             DocHandle(new, d), reviewEmbed(NULL))
                                    = [messages |-> messages',
                                       messageId |-> DocHandle(new, d)]]_vars

\* one of the four embeds was deleted and sent again: five messages were
\* sent, one is gone, and the four stored ids resolve, one of them to the
\* fifth message
C27_OneRecreated ==
    /\ Len(messages) = 5
    /\ \E i \in 1..4 : messages[i].channel_id = NoChannel
    /\ \A d \in Docs :
            Resolves(messages, "g1", DocChannel(config["g1"], d), DocHandle(config["g1"], d))
    /\ \E d \in Docs : DocHandle(config["g1"], d) = 5

\* C28: when updateAutoEmbeds has made its four edits, each embed whose
\* stored message id resolves shows what the pass rendered from the rows it
\* read, also when ensureAllAutoEmbeds sent the message in this pass
PushRendersStoredHandles ==
    [][\A h \in Slots :
        (handlers[h].pc = "updatePush" /\ handlers'[h].pc = "reply")
            => LET g == handlers[h].guild_id
                   cfg == config[g]
                   embeds == AutoEmbeds(handlers[h])
               IN  \A d \in Docs :
                        Resolves(messages, g, DocChannel(cfg, d), DocHandle(cfg, d))
                            => messages'[DocHandle(cfg, d)] =
                                    Message(g, DocChannel(cfg, d),
                                            CASE d = "cur_bigbass" -> embeds.cur_bigbass
                                              [] d = "cur_top5" -> embeds.cur_top5
                                              [] d = "monthly_winners" -> embeds.monthly_winners
                                              [] d = "yearly_winners" -> embeds.yearly_winners)]_vars

\* C29: a weigh-in or end_tournament handler that returns replies with
\* success exactly when it has written its rows: it never reports a failure
\* after its weigh-in row, or the closed flag and the result rows, were
\* written, and never reports success without them
SuccessIffWritten ==
    [][\A h \in Slots :
            (handlers[h].kind \in {"weighin", "end"} /\ handlers'[h] = Idle)
                => (reply'.ret = "ok" <=> handlers[h].written # NULL)]_vars

\* where a handler stands once its own rows are behind it: final standings,
\* the review post, updateAutoEmbeds and the reply
AfterOwnRows ==
    {"postFinalStandings", "reviewPost", "updateGetConfig", "ensureAll",
     "updateRead", "updatePush", "reply"}

\* the rows a state-changing handler writes are in the tables: the weigh-in
\* row of a submission, the closed tournament and one result row for each
\* angler of the two leaderboards read of an end, the tournament of a start
OwnRowsWritten(h) ==
    LET rec == handlers[h]
    IN  /\ rec.written # NULL
        /\ rec.kind = "weighin" =>
                \E w \in weighins : /\ w.id = rec.written
                                     /\ w.guild_id = rec.guild_id
                                     /\ w.tournament_id = rec.active
                                     /\ w.user_id = rec.user_id
                                     /\ w.weight_lbs = rec.weight
        /\ rec.kind = "end" =>
                /\ \E t \in tournaments : t.id = rec.active /\ ~t.is_active
                /\ {r.user_id : r \in ResultsOf(tournament_results, rec.active)}
                        = SeqUsers(rec.big) \cup SeqUsers(rec.bag)
        /\ rec.kind = "start" =>
                \E t \in tournaments : t.id = rec.written /\ t.guild_id = rec.guild_id

\* where a handler stands before updateAutoEmbeds reads the leaderboards
\* again: it still holds the two leaderboards its snapshot was taken from
BeforeEmbedsRead == {"postFinalStandings", "reviewPost", "updateGetConfig", "ensureAll"}

\* C30: every step a start, weigh-in or end handler takes from its first
\* external call on (final standings, review post, the embeds, the reply) is
\* taken after the handler has written, with its own rows in the tables
\* when the calls begin, leaves the tournaments, weigh-ins and results as
\* they are whether the call is served or fails, and never leads back to a
\* statement that writes them
RowsWrittenBeforeExternalCalls ==
    [][\A h \in Slots :
            (/\ handlers[h].kind \in {"start", "weighin", "end"}
             /\ handlers[h].pc \in AfterOwnRows
             /\ handlers'[h] # handlers[h])
                => /\ handlers[h].written # NULL
                   /\ handlers[h].pc \in BeforeEmbedsRead => OwnRowsWritten(h)
                   /\ UNCHANGED <<tournaments, weighins, tournament_results>>
                   /\ handlers'[h].pc \in AfterOwnRows \cup {"done"}]_vars

\* an end_tournament handler was told that something went wrong by the
\* results channel, after it had closed its tournament and written the
\* result row of an angler: tournament and row are still there
C30_FailedAfterRows ==
    /\ reply.kind = "end"
    /\ reply.ret = "Failed"
    /\ \E t \in tournaments :
            /\ ~t.is_active
            /\ t.ended_at = reply.at
            /\ ResultsOf(tournament_results, t.id) # {}

\* C32: /reset_tournament_data of a guild leaves no weigh-in, no result and
\* no tournament of that guild, so no active tournament, and leaves the
\* config row of the guild and every row of every other guild as they are
ResetRemovesGuildRows ==
    [][\A g \in Guilds :
            ResetTournamentData(g)
                => /\ \A w \in weighins' : w.guild_id # g
                   /\ \A r \in tournament_results' : r.guild_id # g
                   /\ \A t \in tournaments' : t.guild_id # g
                   /\ config' = config
                   /\ uploads' = uploads
                   /\ {w \in weighins' : w.guild_id # g} = {w \in weighins : w.guild_id # g}
                   /\ {r \in tournament_results' : r.guild_id # g}
                        = {r \in tournament_results : r.guild_id # g}
                   /\ {t \in tournaments' : t.guild_id # g}
                        = {t \in tournaments : t.guild_id # g}]_vars

\* guild g1 was set up, had a tournament with a weigh-in and was reset
\* beside the two tournaments, the weigh-ins and the result of guild g2: g1
\* has its config row and no row else, g2 its rows
C32_ResetBesideOtherGuild ==
    /\ config["g1"].review_channel_id # NoChannel
    /\ nextTournamentId > 3
    /\ nextWeighinId > 3
    /\ \A t \in tournaments : t.guild_id = "g2"
    /\ \A w \in weighins : w.guild_id = "g2"
    /\ Cardinality(tournaments) = 2
    /\ Cardinality(weighins) = 2
    /\ tournament_results # {}

\* C33: no step of a weigh-in handler deletes or changes an upload; while
\* an upload of the angler in the channel is inside the recency window
\* getLatestUpload resolves one, so the submission is not refused for a
\* missing photo; and a weigh-in written while the angler has one upload in
\* the channel carries the photo of every earlier weigh-in of the angler there
UploadsOutliveSubmissions ==
    [][\A h \in Slots :
            (handlers[h].kind = "weighin" /\ handlers'[h] # handlers[h])
                => LET rec == handlers[h]
                       mine == {u \in uploads : /\ u.guild_id = rec.guild_id
                                                /\ u.channel_id = rec.channel_id
                                                /\ u.user_id = rec.user_id}
                       inWindow == {u \in mine : now - u.created_at <= maxMinutes}
                   IN  /\ uploads' = uploads
                       /\ (rec.pc = "getLatestUpload" /\ inWindow # {})
                            => /\ handlers'[h].pc = "modalInsert"
                               /\ handlers'[h].photo \in {u.image_url : u \in inWindow}
                       /\ (rec.pc = "modalInsert" /\ Cardinality(mine) = 1)
                            => \A w \in weighins' :
                                    (/\ w.guild_id = rec.guild_id
                                     /\ w.channel_id = rec.channel_id
                                     /\ w.user_id = rec.user_id)
                                        => \E u \in mine : w.photo_url = u.image_url]_vars

\* an angler submitted twice on one photo: two weigh-ins carry the one
\* upload of the angler, which is still on record
C33_SubmittedTwice ==
    \E w1, w2 \in weighins :
        /\ w1.id # w2.id
        /\ w1.user_id = w2.user_id
        /\ w1.photo_url = w2.photo_url
        /\ Cardinality({u \in uploads : u.user_id = w1.user_id}) = 1
        /\ \E u \in uploads : u.user_id = w1.user_id /\ u.image_url = w1.photo_url

\* C34: apart from /reset_tournament_data no step deletes a weigh-in or
\* changes its id, guild, channel, tournament, angler, weight or photo: each
\* row is still there with at most another status; in the panel bot every
\* row is approved from its insert and no status changes
LedgerAppendOnly ==
    [][\/ \E g \in Guilds : ResetTournamentData(g)
       \/ /\ \A w \in weighins :
                \E w2 \in weighins' :
                    /\ w2 = [w EXCEPT !.status = w2.status]
                    /\ variant = "panel" => w2.status = w.status
          /\ variant = "panel" => \A w2 \in weighins' : w2.status = "approved"]_vars

\* a weigh-in of guild g1 was submitted with two pounds and then rejected:
\* the row is on record with its weight
C34_RejectedKept ==
    \E w \in weighins :
        /\ w.guild_id = "g1"
        /\ w.status = "rejected"
        /\ w.weight_lbs = 2
        /\ w.user_id = "u2"

\* C35: once the end handlers of a closed tournament have returned, the
\* result rows of the tournament are those a snapshot of the ledger as it
\* stands would write, in every state from then on
SnapshotIsFreeze ==
    \A t \in tournaments :
        (/\ ~t.is_active
         /\ \A h \in Slots : ~(/\ handlers[h].kind = "end"
                               /\ handlers[h].active = t.id))
            => WithoutCreatedAt(ResultsOf(tournament_results, t.id))
                    \in {WithoutCreatedAt(S) : S \in SnapshotsOfLedger(t.guild_id, t.id)}

\* C38: in every reachable state every weigh-in and every result row refers
\* to a tournament on record of the same guild
RowsReferToTournaments ==
    /\ \A w \in weighins :
            \E t \in tournaments : t.id = w.tournament_id /\ t.guild_id = w.guild_id
    /\ \A r \in tournament_results :
            \E t \in tournaments : t.id = r.tournament_id /\ t.guild_id = r.guild_id

\* C40: /end_tournament of the moderated bot in a guild whose config has no
\* results channel replies that the channel is missing and changes nothing:
\* the tournament it read is still active, its ended_at is not set, and no
\* result row of it is written
EndWithoutResultsChannel ==
    [][\A h \in Slots :
            (/\ variant = "moderated"
             /\ handlers[h].kind = "end"
             /\ handlers[h].pc = "endGetConfig"
             /\ handlers'[h] # handlers[h]
             /\ config[handlers[h].guild_id].results_channel_id = NoChannel)
                => /\ handlers'[h] = Idle
                   /\ reply'.kind = "end"
                   /\ reply'.ret = "NoResultsChannel"
                   /\ UNCHANGED <<tournaments, weighins, tournament_results>>
                   /\ \E t \in tournaments' :
                        /\ t.id = handlers[h].active
                        /\ t.is_active
                        /\ t.ended_at = NULL
                   /\ ResultsOf(tournament_results', handlers[h].active) = {}]_vars

\* /end_tournament was refused for the missing results channel while a
\* tournament of the guild is running
C40_EndRefusedNoChannel ==
    /\ reply.kind = "end"
    /\ reply.ret = "NoResultsChannel"
    /\ config[reply.guild_id].results_channel_id = NoChannel
    /\ \E t \in tournaments :
            t.guild_id = reply.guild_id /\ t.is_active /\ t.ended_at = NULL

\* the kind of embed each of the four auto-updating messages holds
DocKind(d) ==
    CASE d = "cur_bigbass" -> "bigbass"
      [] d = "cur_top5" -> "top5"
      [] d = "monthly_winners" -> "monthly"
      [] d = "yearly_winners" -> "yearly"

EmbedsOfTables(g, d) ==
    LET active == getActiveTournament(g)
    IN  CASE d = "cur_bigbass" ->
                {bigBassCurrentEmbed(active, rows) :
                    rows \in IF active = NULL THEN {<<>>}
                             ELSE getBigBassLeaderboard(weighins, g, active)}
          [] d = "cur_top5" ->
                {top5Embed(active, rows) :
                    rows \in IF active = NULL THEN {<<>>}
                             ELSE getTotalBagLeaderboard(weighins, g, active)}
          [] d = "monthly_winners" ->
                {monthlyWinnersEmbed(strftime("%Y-%m", now), w) :
                    w \in getMonthSummaryWinners(g, strftime("%Y-%m", now))}
          [] d = "yearly_winners" ->
                {yearlyWinnersEmbed(strftime("%Y", now), w) :
                    w \in getYearSummaryWinners(g, strftime("%Y", now))}

NoOrphanedEmbeds ==
    (\A h \in Slots : Free(h))
        => \A g \in Guilds, d \in Docs :
                {i \in 1..Len(messages) : /\ messages[i].guild_id = g
                                          /\ messages[i].kind = DocKind(d)
                                          /\ messages[i].channel_id # NoChannel}
                    \subseteq {DocHandle(config[g], d)}

\* C36: the snapshot of a tournament leaves a result row for every angler
\* with an approved weigh-in in it, holding the angler's heaviest approved
\* weight and the sum of the angler's five heaviest
SnapshotCoversEveryAngler ==
    [][\A h \in Slots :
            SnapshotWrite(h) =>
                LET rec == handlers[h]
                    A == ApprovedRows(weighins, rec.guild_id, rec.active)
                IN  \A u \in {w.user_id : w \in A} :
                        \E r \in ResultsOf(tournament_results', rec.active) :
                            /\ r.user_id = u
                            /\ r.big_bass = Max({w.weight_lbs : w \in {x \in A : x.user_id = u}})
                            /\ r.total_bag = SumWeights(Ranked({x \in A : x.user_id = u}, TopN))]_vars

====
